---- MODULE Spec2Model ----
(***************************************************************************)
(* Model of the analytics pipeline of the daily tracker:                   *)
(*   analytics/utils.js   date helpers and the series normalizer           *)
(*   DATA_SCHEMA.md       the insights code (sleep analyzer, statistics)   *)
(*   analytics/charts.js  the granularity aggregators                      *)
(*   trackers/sleep.js    the 48-slot sleep grid                           *)
(*                                                                         *)
(* JavaScript values are modelled as follows.                              *)
(*   string      a sequence of one-character strings                       *)
(*   x | undefined / null    <<>> when absent, <<x>> when present          *)
(*   Date        [day |-> days since 1970-01-01 (local), ms |-> ms of day] *)
(*   fraction    [num |-> n, den |-> d] with d > 0 (a double that holds    *)
(*               the quotient of two small integers)                       *)
(***************************************************************************)
EXTENDS Integers, Sequences, FiniteSets

VARIABLES
    pc,               \* which step of the scenario has run
    startDate,        \* range start handed to fillMissingDates
    endDate,          \* range end handed to fillMissingDates
    data,             \* the list of entries being processed
    filled,           \* result of fillMissingDates
    chunkSize,        \* chunk size handed to the day aggregators
    chart,            \* result of the scalar aggregator
    sleepChart,       \* result of the sleep aggregator
    sleepInitialized, \* trackers/sleep.js: sleepInitialized
    sleepData,        \* trackers/sleep.js: sleepData
    entrySleep,       \* the entry.sleep value handed to analyzeSleepData
    analysis,         \* result of analyzeSleepData
    values,           \* the series handed to findTrend
    trend,            \* result of findTrend
    values2,          \* the second series handed to calculateCorrelation
    correlation,      \* result of calculateCorrelation
    insights,         \* result of the insight function of the scenario
    isLoading,        \* AnalyticsState.isLoading
    viewPeriod,       \* AnalyticsState.currentPeriod
    periodOffset,     \* AnalyticsState.periodOffset
    currentCategoryTab, \* AnalyticsState.currentCategoryTab
    lastEvent,        \* the event delivered last and whether it was handled
    now,              \* new Date() at the time of the last render
    dateRange,        \* result of getOffsetDateRange at the last render
    clock,            \* the wall clock: what new Date() and Date.now() give
    cachedData,       \* AnalyticsState.cachedData: the response it holds
    lastFetch,        \* AnalyticsState.lastFetch
    requests,         \* the fetches of the entry collection in flight
    issued,           \* how many fetches of the entry collection were issued
    store,            \* the version of the entry collection in the external store
    rendered,         \* the snapshot the analytics view shows, if it shows data
    habitsCache,      \* habits-analytics.js: _habitsCache
    habitsView        \* what renderHabitsTab computed and drew last

vars == <<pc, startDate, endDate, data, filled, chunkSize, chart, sleepChart,
          sleepInitialized, sleepData, entrySleep, analysis, values, trend,
          values2, correlation, insights, isLoading, viewPeriod, periodOffset,
          currentCategoryTab, lastEvent, now, dateRange, clock, cachedData, lastFetch,
          requests, issued, store, rendered, habitsCache, habitsView>>

fillVars == <<startDate, endDate, filled>>
aggVars == <<chunkSize, chart, sleepChart>>
sleepVars == <<sleepInitialized, sleepData, entrySleep, analysis>>
trendVars == <<values, trend>>
insightVars == <<values2, correlation, insights>>
loadVars == <<clock, cachedData, lastFetch, requests, issued, store, rendered>>
habitVars == <<habitsCache, habitsView>>
navVars == <<isLoading, viewPeriod, periodOffset, currentCategoryTab, lastEvent, now,
             dateRange, loadVars, habitVars>>

-----------------------------------------------------------------------------
(* Optional values                                                          *)

Undefined == <<>>

Some(x) == <<x>>

IsDefined(v) == v # <<>>

Get(v) == v[1]

-----------------------------------------------------------------------------
(* Strings                                                                  *)

Digits == <<"0", "1", "2", "3", "4", "5", "6", "7", "8", "9">>

DigitChar(n) == Digits[n + 1]

DigitValue(c) == CHOOSE n \in 0..9 : Digits[n + 1] = c

RECURSIVE ToString(_)
\* String(n) for an integer n >= 0
ToString(n) == IF n < 10 THEN <<DigitChar(n)>>
               ELSE ToString(n \div 10) \o <<DigitChar(n % 10)>>

RECURSIVE padStart(_, _, _)
\* s.padStart(targetLength, ch)
padStart(s, targetLength, ch) ==
    IF Len(s) >= targetLength THEN s ELSE padStart(<<ch>> \o s, targetLength, ch)

RECURSIVE ToNumber(_)
\* +s for a string of decimal digits
ToNumber(s) == IF s = <<>> THEN 0
               ELSE 10 * ToNumber(SubSeq(s, 1, Len(s) - 1)) + DigitValue(s[Len(s)])

\* s.substring(from, to) with 0-based from, exclusive to
substring(s, from, to) == SubSeq(s, from + 1, to)

\* the two parts of t.split(':') for a string holding one colon
SplitColon(t) ==
    LET k == CHOOSE i \in 1..Len(t) : t[i] = ":"
    IN  <<SubSeq(t, 1, k - 1), SubSeq(t, k + 1, Len(t))>>

-----------------------------------------------------------------------------
(* Dates: the calendar the built-in Date implements                         *)

oneDay == 86400000

EndOfDayMs == 86399999

\* (year, month 1..12, day of month) of a day number; proleptic Gregorian
CivilFromDays(dayNo) ==
    LET z == dayNo + 719468
        era == z \div 146097
        doe == z - era * 146097
        yoe == (doe - doe \div 1460 + doe \div 36524 - doe \div 146096) \div 365
        doy == doe - (365 * yoe + yoe \div 4 - yoe \div 100)
        mp == (5 * doy + 2) \div 153
        d == doy - (153 * mp + 2) \div 5 + 1
        m == IF mp < 10 THEN mp + 3 ELSE mp - 9
        y == yoe + era * 400 + (IF m <= 2 THEN 1 ELSE 0)
    IN  [year |-> y, month |-> m, date |-> d]

getFullYear(d) == CivilFromDays(d.day).year

\* 0-based month, as Date.prototype.getMonth
getMonth(d) == CivilFromDays(d.day).month - 1

getDate(d) == CivilFromDays(d.day).date

\* d.setDate(n): day n of d's month, overflowing into the neighbouring months
setDate(d, n) == [d EXCEPT !.day = d.day - getDate(d) + n]

\* a variant of DateLeq that stops the loop one step early: a < b
DateLeqStrict(a, b) == a.day < b.day \/ (a.day = b.day /\ a.ms < b.ms)

\* a <= b on Date objects (comparison of the time values)
DateLeq(a, b) == a.day < b.day \/ (a.day = b.day /\ a.ms <= b.ms)

\* endDate - startDate in milliseconds
DateDiffMs(endD, startD) == (endD.day - startD.day) * oneDay + (endD.ms - startD.ms)

-----------------------------------------------------------------------------
(* analytics/utils.js                                                       *)

\* formatDate(date, 'YYYY-MM-DD') for a Date object
formatDate(d) ==
    ToString(getFullYear(d)) \o <<"-">>
        \o padStart(ToString(getMonth(d) + 1), 2, "0") \o <<"-">>
        \o padStart(ToString(getDate(d)), 2, "0")

\* the baseline entry pushed for a date without a stored entry
BaselineEntry(dateStr) ==
    [date |-> dateStr,
     energy |-> Some([highest |-> 4, lowest |-> 4]),
     mood |-> Some([highest |-> 4, lowest |-> 4]),
     anxiety |-> Some(4),
     irritability |-> Some(4),
     sleep |-> Undefined,
     isMissing |-> TRUE]

\* a variant of DataMapLookup in which the first entry of a date is kept
RECURSIVE DataMapLookupFirst(_, _)
DataMapLookupFirst(entries, dateStr) ==
    IF entries = <<>> THEN Undefined
    ELSE IF entries[1].date = dateStr THEN Some(entries[1])
    ELSE DataMapLookupFirst(Tail(entries), dateStr)

\* dataMap[dateStr] after the forEach: the last entry of data with that date
RECURSIVE DataMapLookup(_, _)
DataMapLookup(entries, dateStr) ==
    IF entries = <<>> THEN Undefined
    ELSE IF entries[Len(entries)].date = dateStr THEN Some(entries[Len(entries)])
    ELSE DataMapLookup(SubSeq(entries, 1, Len(entries) - 1), dateStr)

FillStep(entries, current) ==
    LET dateStr == formatDate(current)
        hit == DataMapLookup(entries, dateStr)
    IN  IF IsDefined(hit) THEN Get(hit) ELSE BaselineEntry(dateStr)

RECURSIVE FillLoop(_, _, _)
\* the while (current <= endDate) loop
FillLoop(entries, current, endD) ==
    IF DateLeq(current, endD)
    THEN <<FillStep(entries, current)>>
             \o FillLoop(entries, setDate(current, getDate(current) + 1), endD)
    ELSE <<>>

fillMissingDates(entries, startD, endD) == FillLoop(entries, startD, endD)

\* Math.round(Math.abs((endDate - startDate) / oneDay))
daysBetween(startD, endD) ==
    LET diff == DateDiffMs(endD, startD)
        abs == IF diff < 0 THEN 0 - diff ELSE diff
    IN  (abs + oneDay \div 2) \div oneDay

-----------------------------------------------------------------------------
(* Fractions: doubles that hold the quotient of two small integers          *)

Frac(n, d) == [num |-> n, den |-> d]

FracEq(a, b) == a.num * b.den = b.num * a.den

FracLess(a, b) == a.num * b.den < b.num * a.den

FracAdd(a, b) ==
    IF a.den = b.den THEN Frac(a.num + b.num, a.den)
    ELSE Frac(a.num * b.den + b.num * a.den, a.den * b.den)

-----------------------------------------------------------------------------
(* DATA_SCHEMA.md (insights code): analyzeSleepData                         *)

SlotCount == 48

\* a variant of ZeroedResult that reports midnight instead of null
ZeroedResultMidnight ==
    [duration |-> Frac(0, 1),
     bedtime |-> Some(<<"0", "0", ":", "0", "0">>),
     wakeTime |-> Some(<<"0", "0", ":", "0", "0">>),
     mainSleepDuration |-> Undefined,
     periods |-> <<>>,
     naps |-> Undefined,
     hasNaps |-> FALSE,
     napCount |-> Undefined,
     totalNapDuration |-> Undefined]

\* the result returned for an absent, mis-sized or all-awake array
ZeroedResult ==
    [duration |-> Frac(0, 1),
     bedtime |-> Undefined,
     wakeTime |-> Undefined,
     mainSleepDuration |-> Undefined,
     periods |-> <<>>,
     naps |-> Undefined,
     hasNaps |-> FALSE,
     napCount |-> Undefined,
     totalNapDuration |-> Undefined]

\* the for loop over the slots: i is the 0-based slot index, currentPeriod
\* is null (<<>>) or the open period; the open period is flushed at the end
RECURSIVE ScanSlots(_, _, _, _)
ScanSlots(sleepArray, i, periods, currentPeriod) ==
    IF i >= Len(sleepArray)
    THEN IF IsDefined(currentPeriod) THEN Append(periods, Get(currentPeriod)) ELSE periods
    ELSE IF sleepArray[i + 1]
         THEN IF ~IsDefined(currentPeriod)
              THEN ScanSlots(sleepArray, i + 1, periods, Some([start |-> i, end |-> i]))
              ELSE ScanSlots(sleepArray, i + 1, periods,
                             Some([Get(currentPeriod) EXCEPT !.end = i]))
         ELSE IF IsDefined(currentPeriod)
              THEN ScanSlots(sleepArray, i + 1, Append(periods, Get(currentPeriod)), Undefined)
              ELSE ScanSlots(sleepArray, i + 1, periods, Undefined)

\* a variant of WithDuration that leaves the last slot of the period out
WithDurationExclusive(period) ==
    [start |-> period.start, end |-> period.end,
     duration |-> Frac(period.end - period.start, 2)]

\* period.duration = (period.end - period.start + 1) / 2
WithDuration(period) ==
    [start |-> period.start, end |-> period.end,
     duration |-> Frac(period.end - period.start + 1, 2)]

MapWithDuration(periods) == [k \in 1..Len(periods) |-> WithDuration(periods[k])]

\* insertion of p into a list sorted by descending duration, after its equals
RECURSIVE InsertByDuration(_, _)
InsertByDuration(sorted, p) ==
    IF sorted = <<>> THEN <<p>>
    ELSE IF FracLess(Head(sorted).duration, p.duration) THEN <<p>> \o sorted
    ELSE <<Head(sorted)>> \o InsertByDuration(Tail(sorted), p)

\* periods.slice().sort((a, b) => b.duration - a.duration): a stable sort
RECURSIVE SortByDurationDesc(_)
SortByDurationDesc(periods) ==
    IF periods = <<>> THEN <<>>
    ELSE InsertByDuration(SortByDurationDesc(SubSeq(periods, 1, Len(periods) - 1)),
                          periods[Len(periods)])

formatTimeFromSlot(slot) ==
    LET hours == slot \div 2
        minutes == (slot % 2) * 30
    IN  padStart(ToString(hours), 2, "0") \o <<":">> \o padStart(ToString(minutes), 2, "0")

RECURSIVE SumFracs(_), SumSeq(_)
\* fs.reduce((sum, f) => sum + f, 0); fractions of one denominator are added
\* by their numerators
SumFracs(fs) ==
    IF fs = <<>> THEN Frac(0, 1)
    ELSE IF \A k \in 1..Len(fs) : fs[k].den = fs[1].den
    THEN Frac(SumSeq([k \in 1..Len(fs) |-> fs[k].num]), fs[1].den)
    ELSE FracAdd(SumFracs(SubSeq(fs, 1, Len(fs) - 1)), fs[Len(fs)])

SumDurations(periods) == SumFracs([k \in 1..Len(periods) |-> periods[k].duration])

\* sortedPeriods.slice(1).filter(p => p.duration >= 0.5)
RECURSIVE NapFilter(_)
NapFilter(periods) ==
    IF periods = <<>> THEN <<>>
    ELSE IF FracLess(Head(periods).duration, Frac(1, 2)) THEN NapFilter(Tail(periods))
    ELSE <<Head(periods)>> \o NapFilter(Tail(periods))

\* a variant of MainSleepOf that takes the first period in slot order
MainSleepFirst(periods) == periods[1]

\* sortedPeriods[0]
MainSleepOf(periods) == SortByDurationDesc(periods)[1]

\* sleepArray is the value of entry.sleep: Undefined or Some(array)
analyzeSleepData(sleepArray) ==
    IF ~IsDefined(sleepArray) \/ Len(Get(sleepArray)) # SlotCount THEN ZeroedResult
    ELSE LET found == ScanSlots(Get(sleepArray), 0, <<>>, Undefined)
         IN  IF Len(found) = 0 THEN ZeroedResult
             ELSE LET periods == MapWithDuration(found)
                      mainSleep == MainSleepOf(periods)
                      naps == NapFilter(Tail(SortByDurationDesc(periods)))
                  IN  [duration |-> SumDurations(periods),
                       bedtime |-> Some(formatTimeFromSlot(mainSleep.start)),
                       wakeTime |-> Some(formatTimeFromSlot(mainSleep.end + 1)),
                       mainSleepDuration |-> Some(mainSleep.duration),
                       periods |-> periods,
                       naps |-> Some(naps),
                       hasNaps |-> Len(naps) > 0,
                       napCount |-> Some(Len(naps)),
                       totalNapDuration |-> Some(SumDurations(naps))]

-----------------------------------------------------------------------------
(* Stored entries                                                           *)

\* A stored entry carries no isMissing property; every reader tests it with
\* !entry.isMissing, so the absent property is modelled by FALSE.
StoredEntry(dateStr, body, sleepValue) ==
    [date |-> dateStr,
     energy |-> body.energy,
     mood |-> body.mood,
     anxiety |-> body.anxiety,
     irritability |-> body.irritability,
     sleep |-> sleepValue,
     isMissing |-> FALSE]

\* The "Example Complete Entry" of the schema, without its sleep array
ExampleBody ==
    [energy |-> Some([highest |-> 6, lowest |-> 2]),
     mood |-> Some([highest |-> 7, lowest |-> 3]),
     anxiety |-> Some(5),
     irritability |-> Some(3)]

\* A second complete entry
OtherBody ==
    [energy |-> Some([highest |-> 5, lowest |-> 4]),
     mood |-> Some([highest |-> 4, lowest |-> 4]),
     anxiety |-> Some(6),
     irritability |-> Some(1)]

\* An entry saved without the optional energy and anxiety fields
PartialBody ==
    [energy |-> Undefined,
     mood |-> Some([highest |-> 2, lowest |-> 1]),
     anxiety |-> Undefined,
     irritability |-> Some(7)]

-----------------------------------------------------------------------------
(* analytics/charts.js: the scalar aggregators                              *)

\* Math.round(n / d) for d > 0: the nearest integer, halves upwards
RoundDiv(n, d) == (2 * n + d) \div (2 * d)

SumSeq(xs) == IF xs = <<>> THEN 0 ELSE SumSeq(SubSeq(xs, 1, Len(xs) - 1)) + xs[Len(xs)]

RECURSIVE SelectDefined(_)
\* arr.filter(v => v != null && !isNaN(v)), unwrapped
SelectDefined(arr) ==
    IF arr = <<>> THEN <<>>
    ELSE IF IsDefined(Head(arr)) THEN <<Get(Head(arr))>> \o SelectDefined(Tail(arr))
    ELSE SelectDefined(Tail(arr))

\* the local function mean of _aggregateByDays and _aggregateByMonth
mean(arr) ==
    LET valid == SelectDefined(arr)
    IN  IF Len(valid) = 0 THEN Frac(4, 1)
        ELSE Frac(RoundDiv(SumSeq(valid) * 10, Len(valid)), 10)

RECURSIVE NonMissing(_)
\* chunk.filter(e => !e.isMissing)
NonMissing(chunk) ==
    IF chunk = <<>> THEN <<>>
    ELSE IF ~Head(chunk).isMissing THEN <<Head(chunk)>> \o NonMissing(Tail(chunk))
    ELSE NonMissing(Tail(chunk))

\* e.energy ? e.energy.highest : null
HighestOf(field) == IF IsDefined(field) THEN Some(Get(field).highest) ELSE Undefined

LowestOf(field) == IF IsDefined(field) THEN Some(Get(field).lowest) ELSE Undefined

\* a variant of ChunkAllMissing: a bucket is missing as soon as one member is
ChunkAnyMissing(chunk) == Len(NonMissing(chunk)) < Len(chunk)

\* nonMissing.length === 0
ChunkAllMissing(chunk) == Len(NonMissing(chunk)) = 0

\* the bucket pushed for one chunk, dated dateStr
ScalarBucket(chunk, dateStr) ==
    LET nonMissing == NonMissing(chunk)
    IN  IF ChunkAllMissing(chunk)
        THEN [date |-> dateStr, isMissing |-> TRUE,
              energy |-> [highest |-> Frac(4, 1), lowest |-> Frac(4, 1)],
              mood |-> [highest |-> Frac(4, 1), lowest |-> Frac(4, 1)],
              anxiety |-> Frac(4, 1), irritability |-> Frac(4, 1)]
        ELSE [date |-> dateStr, isMissing |-> FALSE,
              energy |->
                  [highest |-> mean([k \in 1..Len(nonMissing) |-> HighestOf(nonMissing[k].energy)]),
                   lowest |-> mean([k \in 1..Len(nonMissing) |-> LowestOf(nonMissing[k].energy)])],
              mood |->
                  [highest |-> mean([k \in 1..Len(nonMissing) |-> HighestOf(nonMissing[k].mood)]),
                   lowest |-> mean([k \in 1..Len(nonMissing) |-> LowestOf(nonMissing[k].mood)])],
              anxiety |-> mean([k \in 1..Len(nonMissing) |-> nonMissing[k].anxiety]),
              irritability |-> mean([k \in 1..Len(nonMissing) |-> nonMissing[k].irritability])]

Min(a, b) == IF a < b THEN a ELSE b

\* data.slice(i, Math.min(i + chunkSize, data.length)) with 0-based i
ChunkAt(entries, i, size) == SubSeq(entries, i + 1, Min(i + size, Len(entries)))

RECURSIVE AggregateByDaysFrom(_, _, _)
\* the for (i = 0; i < data.length; i += chunkSize) loop
AggregateByDaysFrom(entries, i, size) ==
    IF i >= Len(entries) THEN <<>>
    ELSE LET chunk == ChunkAt(entries, i, size)
         IN  <<ScalarBucket(chunk, chunk[1].date)>>
                 \o AggregateByDaysFrom(entries, i + size, size)

_aggregateByDays(entries, size) == AggregateByDaysFrom(entries, 0, size)

\* data[i].date.substring(0, 7)
MonthKey(e) == substring(e.date, 0, 7)

RECURSIVE MonthOrder(_, _)
\* order: the month keys in order of first appearance
MonthOrder(entries, order) ==
    IF entries = <<>> THEN order
    ELSE IF \E k \in 1..Len(order) : order[k] = MonthKey(Head(entries))
         THEN MonthOrder(Tail(entries), order)
         ELSE MonthOrder(Tail(entries), Append(order, MonthKey(Head(entries))))

RECURSIVE MonthGroup(_, _)
\* groups[key]: the entries of the month, in input order
MonthGroup(entries, key) ==
    IF entries = <<>> THEN <<>>
    ELSE IF MonthKey(Head(entries)) = key
         THEN <<Head(entries)>> \o MonthGroup(Tail(entries), key)
         ELSE MonthGroup(Tail(entries), key)

_aggregateByMonth(entries) ==
    LET order == MonthOrder(entries, <<>>)
    IN  [k \in 1..Len(order) |->
            ScalarBucket(MonthGroup(entries, order[k]), order[k] \o <<"-", "0", "1">>)]

-----------------------------------------------------------------------------
(* analytics/charts.js: the sleep aggregators                               *)

MinutesPerDay == 1440

ShiftBefore == 360

\* tMin(t): +p[0] * 60 + +p[1] for p = t.split(':')
tMin(t) == ToNumber(SplitColon(t)[1]) * 60 + ToNumber(SplitColon(t)[2])

\* tStr(m) for a fraction m
tStr(m) ==
    LET n == ((RoundDiv(m.num, m.den) % MinutesPerDay) + MinutesPerDay) % MinutesPerDay
    IN  padStart(ToString(n \div 60), 2, "0") \o <<":">> \o padStart(ToString(n % 60), 2, "0")

\* the day's entry of the local array entries, or nothing
SleepEntryOf(e) ==
    IF ~e.isMissing /\ IsDefined(e.sleep)
    THEN LET an == analyzeSleepData(e.sleep)
         IN  IF FracLess(Frac(0, 1), an.duration)
             THEN <<[dur |-> an.duration,
                     bed |-> tMin(Get(an.bedtime)),
                     wake |-> tMin(Get(an.wakeTime)),
                     hasNaps |-> an.hasNaps,
                     napCount |-> IF IsDefined(an.napCount) THEN Get(an.napCount) ELSE 0]>>
             ELSE <<>>
    ELSE <<>>

\* the local array entries of a chunk: the entries of its days with sleep
SleepEntries(chunk) ==
    LET found == SelectSeq([k \in 1..Len(chunk) |-> SleepEntryOf(chunk[k])],
                           LAMBDA pushed : pushed # <<>>)
    IN  [k \in 1..Len(found) |-> found[k][1]]

\* a variant of NormBed without the shift of the hours after midnight
NormBedPlain(bed) == bed

\* e.bed < 360 ? e.bed + 1440 : e.bed
NormBed(bed) == IF bed < ShiftBefore THEN bed + MinutesPerDay ELSE bed

\* the bucket pushed for a chunk with the sleep entries given
SleepBucket(entries, dateStr) ==
    LET count == Len(entries)
        durSum == SumFracs([k \in 1..count |-> entries[k].dur])
        avgBed == Frac(SumSeq([k \in 1..count |-> NormBed(entries[k].bed)]), count)
        avgWake == Frac(SumSeq([k \in 1..count |-> entries[k].wake]), count)
    IN  [date |-> dateStr,
         duration |-> Frac(durSum.num, durSum.den * count),
         bedtime |-> tStr(avgBed),
         wakeTime |-> tStr(avgWake),
         hasNaps |-> \E k \in 1..count : entries[k].hasNaps,
         napCount |-> SumSeq([k \in 1..count |-> entries[k].napCount]),
         bedtimeMinutes |-> Frac(avgBed.num % (MinutesPerDay * avgBed.den), avgBed.den),
         wakeTimeMinutes |-> avgWake]

\* a variant of SleepChunkResult that draws a zero bucket for a chunk without
\* sleep, as the scalar aggregator does
SleepChunkResultPlaceholder(chunk, dateStr) ==
    IF Len(SleepEntries(chunk)) = 0
    THEN <<[date |-> dateStr, duration |-> Frac(0, 1),
            bedtime |-> <<"0", "0", ":", "0", "0">>, wakeTime |-> <<"0", "0", ":", "0", "0">>,
            hasNaps |-> FALSE, napCount |-> 0,
            bedtimeMinutes |-> Frac(0, 1), wakeTimeMinutes |-> Frac(0, 1)]>>
    ELSE <<SleepBucket(SleepEntries(chunk), dateStr)>>

\* what one chunk adds to result: nothing (continue) or its bucket
SleepChunkResult(chunk, dateStr) ==
    IF Len(SleepEntries(chunk)) = 0 THEN <<>>
    ELSE <<SleepBucket(SleepEntries(chunk), dateStr)>>

RECURSIVE AggregateSleepRawFrom(_, _, _)
AggregateSleepRawFrom(entries, i, size) ==
    IF i >= Len(entries) THEN <<>>
    ELSE LET chunk == ChunkAt(entries, i, size)
         IN  SleepChunkResult(chunk, chunk[1].date)
                 \o AggregateSleepRawFrom(entries, i + size, size)

_aggregateSleepRaw(entries, size) == AggregateSleepRawFrom(entries, 0, size)

RECURSIVE AggregateSleepMonths(_, _)
AggregateSleepMonths(entries, order) ==
    IF order = <<>> THEN <<>>
    ELSE SleepChunkResult(MonthGroup(entries, Head(order)), Head(order) \o <<"-", "0", "1">>)
             \o AggregateSleepMonths(entries, Tail(order))

_aggregateSleepByMonth(entries) == AggregateSleepMonths(entries, MonthOrder(entries, <<>>))

-----------------------------------------------------------------------------
(* DATA_SCHEMA.md (insights code): findTrend                                *)

\* indices.reduce((sum, x, i) => sum + x * values[i], 0) with indices[i] = i
SumXY(vals) == SumSeq([k \in 1..Len(vals) |-> (k - 1) * vals[k]])

\* indices.reduce((sum, x) => sum + x * x, 0)
SumXX(vals) == SumSeq([k \in 1..Len(vals) |-> (k - 1) * (k - 1)])

\* indices.reduce((a, b) => a + b, 0)
SumX(vals) == SumSeq([k \in 1..Len(vals) |-> k - 1])

\* the slope as the fraction the division is applied to
Slope(vals) ==
    LET n == Len(vals)
    IN  Frac(n * SumXY(vals) - SumX(vals) * SumSeq(vals),
             n * SumXX(vals) - SumX(vals) * SumX(vals))

\* the threshold 0.05
Threshold == Frac(5, 100)

NegThreshold == Frac(-5, 100)

\* a variant of AboveThreshold that takes every rising slope for a trend
AboveZero(slope) == FracLess(Frac(0, 1), slope)

\* slope > threshold
AboveThreshold(slope) == FracLess(Threshold, slope)

\* slope < -threshold
BelowNegThreshold(slope) == FracLess(slope, NegThreshold)

findTrend(vals) ==
    IF Len(vals) < 2 THEN "Stable"
    ELSE IF AboveThreshold(Slope(vals)) THEN "Increasing"
    ELSE IF BelowNegThreshold(Slope(vals)) THEN "Decreasing"
    ELSE "Stable"

-----------------------------------------------------------------------------
(* DATA_SCHEMA.md (insights code): calculateAverage, calculateCorrelation   *)

\* sum / values.length, 0 for an empty (or absent) array
calculateAverage(vals) ==
    IF Len(vals) = 0 THEN Frac(0, 1) ELSE Frac(SumSeq(vals), Len(vals))

\* values[i] - mean for mean = total / n, as the fraction (n * v - total) / n
DiffFromMean(v, total, n) == n * v - total

\* a variant of ZeroDenominator that looks at the first series only
ZeroDenominatorFirst(d1, d2) == d1 = 0

\* denominator === 0 for denominator = Math.sqrt(denominator1 * denominator2)
ZeroDenominator(d1, d2) == d1 * d2 = 0

\* The quotient numerator / denominator is kept as its three sums, each times
\* n * n: the result is numerator / sqrt(denominator1 * denominator2).
calculateCorrelation(values1, v2) ==
    IF Len(values1) # Len(v2) \/ Len(values1) < 2 THEN Undefined
    ELSE LET n == Len(values1)
             s1 == calculateAverage(values1).num
             s2 == calculateAverage(v2).num
             numerator == SumSeq([i \in 1..n |->
                 DiffFromMean(values1[i], s1, n) * DiffFromMean(v2[i], s2, n)])
             denominator1 == SumSeq([i \in 1..n |->
                 DiffFromMean(values1[i], s1, n) * DiffFromMean(values1[i], s1, n)])
             denominator2 == SumSeq([i \in 1..n |->
                 DiffFromMean(v2[i], s2, n) * DiffFromMean(v2[i], s2, n)])
         IN  IF ZeroDenominator(denominator1, denominator2) THEN Undefined
             ELSE Some([numerator |-> numerator,
                        denominator1 |-> denominator1,
                        denominator2 |-> denominator2])

-----------------------------------------------------------------------------
(* DATA_SCHEMA.md (insights code): the pattern miners                       *)

Abs(n) == IF n < 0 THEN -n ELSE n

\* v || 4 for a number v
OrFour(v) == IF v = 0 THEN 4 ELSE v

\* e[metric] || 4 for an optional scale field
ScaleOrFour(field) == IF IsDefined(field) THEN OrFour(Get(field)) ELSE 4

\* (e[metric] && e[metric].highest) || 4
HighestOrFour(field) == IF IsDefined(field) THEN OrFour(Get(field).highest) ELSE 4

\* (e[metric] && e[metric].lowest) || 4
LowestOrFour(field) == IF IsDefined(field) THEN OrFour(Get(field).lowest) ELSE 4

\* the value of a metric the pattern miners compare
MetricValue(e, metric) ==
    IF metric = "energy" \/ metric = "mood" THEN HighestOrFour(e[metric])
    ELSE ScaleOrFour(e[metric])

\* e.caffeine || 0
CaffeineOf(e) == IF IsDefined(e.caffeine) THEN Get(e.caffeine) ELSE 0

RECURSIVE Filter(_, _)
\* data.filter(keep), keep given as the set of entries kept
Filter(entries, keep) ==
    IF entries = <<>> THEN <<>>
    ELSE IF Head(entries) \in keep THEN <<Head(entries)>> \o Filter(Tail(entries), keep)
    ELSE Filter(Tail(entries), keep)

EntriesOf(entries) == {entries[k] : k \in 1..Len(entries)}

\* a - b on fractions
FracSub(a, b) ==
    IF a.den = b.den THEN Frac(a.num - b.num, a.den)
    ELSE Frac(a.num * b.den - b.num * a.den, a.den * b.den)

\* Math.abs(diff) >= t for t = tenths / 10
AbsAtLeast(diff, tenths) == 10 * Abs(diff.num) >= tenths * diff.den

InfinityText == <<"I", "n", "f", "i", "n", "i", "t", "y">>

NaNText == <<"N", "a", "N">>

\* the text of Math.abs((diff / avg) * 100) to no decimals: a division by
\* zero gives Infinity, 0 / 0 gives NaN
PctText(diff, avg) ==
    IF avg.num = 0
    THEN (IF diff.num = 0 THEN NaNText ELSE InfinityText)
    ELSE ToString(RoundDiv(Abs(diff.num) * avg.den * 100, diff.den * Abs(avg.num)))

\* the threshold 0.5 of the caffeine comparison, in tenths
CaffeineThreshold == 5

\* a variant of ReportsCaffeine that reports every difference
ReportsAnyDifference(diff) == diff.num # 0

\* Math.abs(diff) >= 0.5
ReportsCaffeine(diff) == AbsAtLeast(diff, CaffeineThreshold)

Metrics == <<"energy", "mood", "anxiety", "irritability">>

\* what the forEach body pushes for one metric: nothing or one statement
CaffeineStatement(caffeineData, noCaffeineData, metric) ==
    LET avgWith == calculateAverage(
            [k \in 1..Len(caffeineData) |-> MetricValue(caffeineData[k], metric)])
        avgWithout == calculateAverage(
            [k \in 1..Len(noCaffeineData) |-> MetricValue(noCaffeineData[k], metric)])
        diff == FracSub(avgWith, avgWithout)
    IN  IF ReportsCaffeine(diff)
        THEN <<[kind |-> "Caffeine impact",
                subject |-> metric,
                pct |-> PctText(diff, avgWithout),
                direction |->
                    IF metric = "anxiety" \/ metric = "irritability"
                    THEN (IF diff.num > 0 THEN "worse" ELSE "better")
                    ELSE (IF diff.num > 0 THEN "higher" ELSE "lower")]>>
        ELSE <<>>

analyzeCaffeineImpact(entries) ==
    LET caffeineData == Filter(entries, {e \in EntriesOf(entries) : CaffeineOf(e) > 0})
        noCaffeineData == Filter(entries, {e \in EntriesOf(entries) : CaffeineOf(e) = 0})
    IN  IF Len(caffeineData) < 1 \/ Len(noCaffeineData) < 1 THEN <<>>
        ELSE CaffeineStatement(caffeineData, noCaffeineData, Metrics[1])
                 \o CaffeineStatement(caffeineData, noCaffeineData, Metrics[2])
                 \o CaffeineStatement(caffeineData, noCaffeineData, Metrics[3])
                 \o CaffeineStatement(caffeineData, noCaffeineData, Metrics[4])

\* e.sleepDuration !== undefined && e.sleepDuration !== null
HasSleepDuration(e) == IsDefined(e.sleepDuration)

\* e.sleepDuration >= 0 && e.sleepDuration <= 4, for a fraction of hours
IsLittleSleep(e) ==
    LET h == Get(e.sleepDuration) IN h.num >= 0 /\ h.num <= 4 * h.den

\* e.sleepDuration >= 5 && e.sleepDuration <= 8
IsAverageSleep(e) ==
    LET h == Get(e.sleepDuration) IN h.num >= 5 * h.den /\ h.num <= 8 * h.den

\* e.sleepDuration > 8
IsLotsSleep(e) == LET h == Get(e.sleepDuration) IN h.num > 8 * h.den

\* groups: the non-empty categories in the order little, average, lots
SleepGroups(littleSleep, averageSleep, lotsSleep) ==
    (IF Len(littleSleep) >= 1
     THEN <<[data |-> littleSleep, label |-> "little sleep (0-4h)"]>> ELSE <<>>)
    \o (IF Len(averageSleep) >= 1
        THEN <<[data |-> averageSleep, label |-> "average sleep (5-8h)"]>> ELSE <<>>)
    \o (IF Len(lotsSleep) >= 1
        THEN <<[data |-> lotsSleep, label |-> "lots of sleep (8+h)"]>> ELSE <<>>)

\* the comparator of groupAverages.sort is negative: a goes before b
AvgBefore(a, b, metric) ==
    IF metric = "anxiety" \/ metric = "irritability" THEN FracLess(a.avg, b.avg)
    ELSE FracLess(b.avg, a.avg)

RECURSIVE InsertByAvg(_, _, _)
\* x placed behind every element it does not go before (the sort is stable)
InsertByAvg(sorted, x, metric) ==
    IF sorted = <<>> THEN <<x>>
    ELSE IF AvgBefore(x, Head(sorted), metric) THEN <<x>> \o sorted
    ELSE <<Head(sorted)>> \o InsertByAvg(Tail(sorted), x, metric)

RECURSIVE SortByAvg(_, _)
SortByAvg(groupAverages, metric) ==
    IF groupAverages = <<>> THEN <<>>
    ELSE InsertByAvg(SortByAvg(SubSeq(groupAverages, 1, Len(groupAverages) - 1), metric),
                     groupAverages[Len(groupAverages)], metric)

\* the threshold 0.3 of the sleep comparison, in tenths
SleepThreshold == 3

\* what the forEach body pushes for one metric
SleepStatement(groups, metric) ==
    IF Len(groups) < 1 THEN <<>>
    ELSE LET groupAverages ==
                 [g \in 1..Len(groups) |->
                     [label |-> groups[g].label,
                      avg |-> calculateAverage(
                          [k \in 1..Len(groups[g].data) |->
                              MetricValue(groups[g].data[k], metric)])]]
             sorted == SortByAvg(groupAverages, metric)
             best == sorted[1]
             worst == sorted[Len(sorted)]
         IN  IF Len(sorted) >= 2
             THEN (IF AbsAtLeast(FracSub(best.avg, worst.avg), SleepThreshold)
                   THEN <<[kind |-> "Sleep impact", subject |-> metric,
                           best |-> best.label, bestAvg |-> best.avg,
                           worst |-> Some(worst.label), worstAvg |-> Some(worst.avg)]>>
                   ELSE <<>>)
             ELSE <<[kind |-> "Sleep pattern", subject |-> metric,
                     best |-> best.label, bestAvg |-> best.avg,
                     worst |-> Undefined, worstAvg |-> Undefined]>>

\* the three categories analyzeSleepImpact divides the entries into
SleepCategories(entries) ==
    LET sleepEntries == Filter(entries, {e \in EntriesOf(entries) : HasSleepDuration(e)})
    IN  [littleSleep |-> Filter(sleepEntries, {e \in EntriesOf(sleepEntries) : IsLittleSleep(e)}),
         averageSleep |->
             Filter(sleepEntries, {e \in EntriesOf(sleepEntries) : IsAverageSleep(e)}),
         lotsSleep |-> Filter(sleepEntries, {e \in EntriesOf(sleepEntries) : IsLotsSleep(e)})]

analyzeSleepImpact(entries) ==
    LET cat == SleepCategories(entries)
        groups == SleepGroups(cat.littleSleep, cat.averageSleep, cat.lotsSleep)
    IN  SleepStatement(groups, Metrics[1]) \o SleepStatement(groups, Metrics[2])
            \o SleepStatement(groups, Metrics[3]) \o SleepStatement(groups, Metrics[4])

\* e[field] when it is an array, no tags otherwise
TagsOf(e, field) == IF IsDefined(e[field]) THEN Get(e[field]) ELSE <<>>

RECURSIVE AllTags(_, _)
\* every tag the two nested forEach loops visit, in order
AllTags(entries, field) ==
    IF entries = <<>> THEN <<>>
    ELSE TagsOf(Head(entries), field) \o AllTags(Tail(entries), field)

RECURSIVE KeysInOrder(_, _)
\* Object.keys(activityCounts): the tags in the order they were first counted
KeysInOrder(visited, keys) ==
    IF visited = <<>> THEN keys
    ELSE IF \E k \in 1..Len(keys) : keys[k] = Head(visited)
         THEN KeysInOrder(Tail(visited), keys)
         ELSE KeysInOrder(Tail(visited), Append(keys, Head(visited)))

\* a variant of TagCount that counts a tag once for each entry listing it
TagCountByEntry(entries, field, tag) ==
    Cardinality({k \in 1..Len(entries) :
                    \E j \in 1..Len(TagsOf(entries[k], field)) :
                        TagsOf(entries[k], field)[j] = tag})

\* activityCounts[tag]: one for every visit of the tag
TagCount(entries, field, tag) ==
    Cardinality({k \in 1..Len(AllTags(entries, field)) : AllTags(entries, field)[k] = tag})

RECURSIVE InsertByCount(_, _, _, _)
\* tag placed behind every tag that is not counted less often (stable sort)
InsertByCount(sorted, tag, entries, field) ==
    IF sorted = <<>> THEN <<tag>>
    ELSE IF TagCount(entries, field, Head(sorted)) < TagCount(entries, field, tag)
         THEN <<tag>> \o sorted
         ELSE <<Head(sorted)>> \o InsertByCount(Tail(sorted), tag, entries, field)

RECURSIVE SortByCount(_, _, _)
\* commonActivities.sort((a, b) => activityCounts[b] - activityCounts[a])
SortByCount(keys, entries, field) ==
    IF keys = <<>> THEN <<>>
    ELSE InsertByCount(SortByCount(SubSeq(keys, 1, Len(keys) - 1), entries, field),
                       keys[Len(keys)], entries, field)

\* the number of tags examined
TopCount == 3

\* a variant of TopTags that examines every tag
TopTagsAll(sorted) == sorted

\* commonActivities.slice(0, 3)
TopTags(sorted) == SubSeq(sorted, 1, Min(TopCount, Len(sorted)))

\* the threshold 0.7 of the tag comparisons, in tenths
TagThreshold == 7

HasTag(e, field, tag) ==
    \E j \in 1..Len(TagsOf(e, field)) : TagsOf(e, field)[j] = tag

\* what the forEach body pushes for one tag
TagStatement(entries, field, tag, kind, upWord) ==
    LET withTag == Filter(entries, {e \in EntriesOf(entries) : HasTag(e, field, tag)})
        withoutTag == Filter(entries, {e \in EntriesOf(entries) : ~HasTag(e, field, tag)})
        avgWith == calculateAverage(
            [k \in 1..Len(withTag) |-> HighestOrFour(withTag[k].mood)])
        avgWithout == calculateAverage(
            [k \in 1..Len(withoutTag) |-> HighestOrFour(withoutTag[k].mood)])
        diff == FracSub(avgWith, avgWithout)
    IN  IF Len(withTag) < 1 \/ Len(withoutTag) < 1 THEN <<>>
        ELSE IF AbsAtLeast(diff, TagThreshold)
             THEN <<[kind |-> kind,
                     subject |-> tag,
                     pct |-> PctText(diff, avgWithout),
                     direction |-> IF diff.num > 0 THEN upWord ELSE "lowers"]>>
             ELSE <<>>

RECURSIVE TagStatements(_, _, _, _, _)
TagStatements(entries, field, tags, kind, upWord) ==
    IF tags = <<>> THEN <<>>
    ELSE TagStatement(entries, field, Head(tags), kind, upWord)
             \o TagStatements(entries, field, Tail(tags), kind, upWord)

\* the tags examined: the most counted tags, in the order of the sort
ExaminedTags(entries, field) ==
    TopTags(SortByCount(KeysInOrder(AllTags(entries, field), <<>>), entries, field))

analyzeActivityImpact(entries) ==
    TagStatements(entries, "activities", ExaminedTags(entries, "activities"),
                  "Activity pattern", "boosts")

analyzePeopleImpact(entries) ==
    TagStatements(entries, "people", ExaminedTags(entries, "people"),
                  "People pattern", "improves")

-----------------------------------------------------------------------------
(* Bounds of the scenarios                                                  *)

\* day number of Monday 2024-02-26: the ranges cross the leap day and a
\* month boundary
BaseDay == 19779

\* longest range handed to fillMissingDates, in days
MaxRangeDays == 7

\* most stored entries handed to fillMissingDates
MaxStored == 2

\* most slots in which the sleep grid differs from the nearest preset
MaxToggles == 1

\* most days handed to the scalar aggregators
MaxDays == 8

\* most days handed to the sleep aggregators
MaxSleepDays == 3

\* most values handed to findTrend
MaxValues == 7

\* longest series handed to calculateCorrelation
MaxCorrLen == 3

\* most days handed to analyzeCaffeineImpact
MaxCaffeineDays == 6

\* most days handed to analyzeSleepImpact
MaxSleepImpactDays == 3

\* most days handed to analyzeActivityImpact and analyzePeopleImpact
MaxTagDays == 3

\* most days handed to the statistics of a period
MaxInsightDays == 4

\* most days of a period with malformed scale values
MaxMalformedDays == 3

\* most periods the navigator steps back from the current one
MaxBack == 3

\* most periods back handed to getOffsetDateRange on its own
MaxRangeBack == 26

\* most fetches of the entry collection issued in a scenario
MaxFetches == 2

\* most steps of the clock between the events of a page session
MaxTicks == 2

\* most changes of the entry collection during a page session
MaxVersions == 1

\* most documents in the habit collection of the store
MaxHabitDays == 3

\* furthest period back at which the habits tab is opened
MaxHabitBack == 1

\* most nights in a series of sleep entries that is averaged
MaxNights == 60

\* most single nights logged in a row
MaxSingleNights == 2

-----------------------------------------------------------------------------
(* Scenario: the series normalizer (SpecFill)                               *)

MidnightOf(dayNo) == [day |-> dayNo, ms |-> 0]

FillBodies == {ExampleBody, OtherBody}

IdleAgg == chunkSize = 0 /\ chart = <<>> /\ sleepChart = <<>>

IdleSleep ==
    /\ sleepInitialized = FALSE
    /\ sleepData = <<>>
    /\ entrySleep = Undefined
    /\ analysis = Undefined

IdleTrend == values = <<>> /\ trend = Undefined

IdleInsight == values2 = <<>> /\ correlation = Undefined /\ insights = Undefined

\* AnalyticsState as the script leaves it, nothing rendered
IdleNav ==
    /\ isLoading = FALSE
    /\ viewPeriod = "week"
    /\ periodOffset = 0
    /\ currentCategoryTab = "energy"
    /\ lastEvent = Undefined
    /\ now = [day |-> 0, ms |-> 0]
    /\ dateRange = Undefined
    /\ clock = [day |-> BaseDay - 56, ms |-> 0]
    /\ cachedData = Undefined
    /\ lastFetch = Undefined
    /\ requests = {}
    /\ issued = 0
    /\ store = 0
    /\ rendered = Undefined
    /\ habitsCache = Undefined
    /\ habitsView = Undefined

\* The range starts at 00:00:00.000 and ends at 00:00:00.000 (parseDate) or at
\* 23:59:59.999 (getOffsetDateRange) of a day not before the start.
InitFill ==
    /\ pc = "input"
    /\ startDate \in {MidnightOf(BaseDay + s) : s \in 0..1}
    /\ endDate \in {[day |-> startDate.day + n, ms |-> m] :
                        n \in 0..(MaxRangeDays - 1), m \in {0, EndOfDayMs}}
    /\ data = <<>>
    /\ filled = <<>>
    /\ IdleInsight /\ IdleNav /\ IdleAgg /\ IdleSleep /\ IdleTrend

\* one more stored entry in the list handed to fillMissingDates; the list may
\* hold dates outside the range and the same date twice
StoreEntry ==
    /\ pc = "input"
    /\ Len(data) < MaxStored
    /\ \E dayNo \in (BaseDay - 1)..(BaseDay + 3), body \in FillBodies :
          data' = Append(data, StoredEntry(formatDate(MidnightOf(dayNo)), body, Undefined))
    /\ UNCHANGED <<insightVars, navVars, pc, fillVars, aggVars, sleepVars, trendVars>>

FillRange ==
    /\ pc = "input"
    /\ filled' = fillMissingDates(data, startDate, endDate)
    /\ pc' = "filled"
    /\ UNCHANGED <<insightVars, navVars, startDate, endDate, data, aggVars, sleepVars, trendVars>>

NextFill == StoreEntry \/ FillRange

SpecFill == InitFill /\ [][NextFill]_vars

-----------------------------------------------------------------------------
(* Claims about the series normalizer                                       *)

CharCode(c) == IF c = "-" THEN 45 ELSE IF c = ":" THEN 58 ELSE 48 + DigitValue(c)

\* a < b on strings: the first differing character decides, a proper prefix
\* is smaller
StrLess(a, b) ==
    \/ \E k \in 1..Len(a) :
          /\ k <= Len(b)
          /\ CharCode(a[k]) < CharCode(b[k])
          /\ \A j \in 1..(k - 1) : a[j] = b[j]
    \/ (Len(a) < Len(b) /\ \A j \in 1..Len(a) : a[j] = b[j])

StrLeq(a, b) == a = b \/ StrLess(a, b)

IsLeapYear(y) == (y % 4 = 0 /\ y % 100 # 0) \/ y % 400 = 0

DaysInMonth(y, m) ==
    IF m = 2 THEN (IF IsLeapYear(y) THEN 29 ELSE 28)
    ELSE IF m \in {4, 6, 9, 11} THEN 30 ELSE 31

RECURSIVE DaysBeforeMonth(_, _)
DaysBeforeMonth(y, m) ==
    IF m = 1 THEN 0 ELSE DaysBeforeMonth(y, m - 1) + DaysInMonth(y, m - 1)

\* days from 1970-01-01 to January 1st of year y >= 1970
DaysBeforeYear(y) ==
    365 * (y - 1970) + ((y - 1969) \div 4) - ((y - 1901) \div 100) + ((y - 1601) \div 400)

\* the day number a YYYY-MM-DD string denotes, read digit by digit
DayNoOfString(str) ==
    LET y == ToNumber(SubSeq(str, 1, 4))
        m == ToNumber(SubSeq(str, 6, 7))
        d == ToNumber(SubSeq(str, 9, 10))
    IN  DaysBeforeYear(y) + DaysBeforeMonth(y, m) + d - 1

WellFormedDate(str) ==
    /\ Len(str) = 10
    /\ str[5] = "-" /\ str[8] = "-"
    /\ \A k \in {1, 2, 3, 4, 6, 7, 9, 10} : \E n \in 0..9 : str[k] = Digits[n + 1]
    /\ ToNumber(SubSeq(str, 6, 7)) \in 1..12
    /\ ToNumber(SubSeq(str, 9, 10)) \in
           1..DaysInMonth(ToNumber(SubSeq(str, 1, 4)), ToNumber(SubSeq(str, 6, 7)))

\* C1 as stated: fillMissingDates returns exactly daysBetween(start, end) + 1
\* entries.
C1_Original ==
    pc = "filled" => Len(filled) = daysBetween(startDate, endDate) + 1

\* C1 amended: for a range that starts at 00:00 of one day and ends on a day
\* not before it, fillMissingDates returns one entry per calendar date from the
\* start's date through the end's date: pairwise distinct, well-formed dates
\* in strictly ascending order, all within the range.  That is
\* daysBetween(start, end) + 1 entries when the end is at 00:00 too, and
\* daysBetween(start, end) entries when the end is at 23:59:59.999.
C1_OnePerCalendarDate ==
    pc = "filled" =>
        /\ Len(filled) = endDate.day - startDate.day + 1
        /\ Len(filled) = daysBetween(startDate, endDate)
                             + (IF endDate.ms = startDate.ms THEN 1 ELSE 0)
        /\ \A i \in 1..Len(filled) :
              /\ WellFormedDate(filled[i].date)
              /\ DayNoOfString(filled[i].date) = startDate.day + i - 1
              /\ StrLeq(formatDate(startDate), filled[i].date)
              /\ StrLeq(filled[i].date, formatDate(endDate))
        /\ \A i \in 1..(Len(filled) - 1) : StrLess(filled[i].date, filled[i + 1].date)
        /\ \A i, j \in 1..Len(filled) : i # j => filled[i].date # filled[j].date

\* a week as getOffsetDateRange hands it over, filled across the leap day
C1_Witness ==
    /\ pc = "filled"
    /\ endDate.day = startDate.day + 6
    /\ endDate.ms = EndOfDayMs
    /\ Len(filled) = 7
    /\ Len(data) > 0

HasStored(entries, dateStr) == \E j \in 1..Len(entries) : entries[j].date = dateStr

LastStored(entries, dateStr) ==
    entries[CHOOSE j \in 1..Len(entries) :
                /\ entries[j].date = dateStr
                /\ \A k \in (j + 1)..Len(entries) : entries[k].date # dateStr]

AllScalesAre(e, v) ==
    /\ e.energy = Some([highest |-> v, lowest |-> v])
    /\ e.mood = Some([highest |-> v, lowest |-> v])
    /\ e.anxiety = Some(v)
    /\ e.irritability = Some(v)

\* C2: for every date of the range, the output entry is the stored entry of
\* that date (the last one in the list when the date is stored twice), not
\* flagged missing, when one exists; otherwise it is a baseline entry flagged
\* missing whose six scale fields are 4.  An output entry is flagged missing
\* exactly when no stored entry has its date.
C2_StoredOrBaseline ==
    pc = "filled" =>
        \A i \in 1..Len(filled) :
            /\ HasStored(data, filled[i].date) =>
                  /\ filled[i] = LastStored(data, filled[i].date)
                  /\ filled[i].isMissing = FALSE
            /\ ~HasStored(data, filled[i].date) =>
                  /\ filled[i].isMissing = TRUE
                  /\ AllScalesAre(filled[i], 4)
            /\ filled[i].isMissing <=> ~HasStored(data, filled[i].date)

\* a filled range holding a stored date, a stored date given twice with
\* different contents, and a date without a stored entry
C2_Witness ==
    /\ pc = "filled"
    /\ \E i \in 1..Len(filled) : filled[i].isMissing
    /\ \E i \in 1..Len(filled) :
          /\ ~filled[i].isMissing
          /\ Len(data) = 2
          /\ data[1].date = filled[i].date
          /\ data[2].date = filled[i].date
          /\ data[1] # data[2]

-----------------------------------------------------------------------------
(* trackers/sleep.js: calculateSleepDuration                                *)

\* sleepData.filter(slot => slot === true).length / 2, and 0 for no array
calculateSleepDuration(slots) ==
    IF Len(slots) = 0 THEN Frac(0, 1)
    ELSE Frac(Len(SelectSeq(slots, LAMBDA slot : slot = TRUE)), 2)

-----------------------------------------------------------------------------
(* Scenario: the sleep grid and the sleep interval analyzer (SpecSleep)     *)

\* the array that is asleep exactly in the slots of the set S
SlotsAsleep(S) == [k \in 1..SlotCount |-> (k - 1) \in S]

\* Grids a user reaches by toggling slots of the fresh grid: nothing, the
\* schema's example night, 00:00-07:00, 22:00-00:00 plus 00:00-07:00,
\* 20:00-24:00, two equally long naps, 23:00-24:00, 01:00-08:00, all day.
SleepPresets ==
    {SlotsAsleep({}),
     SlotsAsleep(2..12),
     SlotsAsleep(0..13),
     SlotsAsleep((44..47) \cup (0..13)),
     SlotsAsleep(40..47),
     SlotsAsleep((4..7) \cup (20..23)),
     SlotsAsleep(46..47),
     SlotsAsleep(2..15),
     SlotsAsleep(0..47)}

Distance(a, b) == Cardinality({k \in 1..SlotCount : a[k] # b[k]})

\* the presets within reach of arr, each with its distance from arr
PresetsNear(arr) ==
    IF Len(arr) # SlotCount THEN {}
    ELSE {pd \in {<<preset, Distance(arr, preset)>> : preset \in SleepPresets} :
              pd[2] <= MaxToggles + 1}

\* arr with slot i toggled differs from some preset in at most MaxToggles
\* slots
StaysNear(near, arr, i) ==
    \E pd \in near :
        pd[2] + (IF arr[i + 1] = pd[1][i + 1] THEN 1 ELSE 0 - 1) <= MaxToggles

IdleFill ==
    /\ startDate = MidnightOf(BaseDay)
    /\ endDate = MidnightOf(BaseDay)
    /\ filled = <<>>

\* the page before initSleepTracker has run, or the grid as a user left it
InitSleep ==
    /\ pc = "input"
    /\ \/ (sleepInitialized = FALSE /\ sleepData = <<>>)
       \/ (sleepInitialized = TRUE /\ sleepData \in SleepPresets)
    /\ entrySleep = Undefined
    /\ analysis = Undefined
    /\ data = <<>>
    /\ IdleFill /\ IdleInsight /\ IdleNav /\ IdleAgg /\ IdleTrend

\* trackers/sleep.js initSleepTracker; without the grid element the array
\* stays empty
initSleepTracker ==
    /\ pc = "input"
    /\ ~sleepInitialized
    /\ sleepInitialized' = TRUE
    /\ \E gridPresent \in BOOLEAN :
          sleepData' = IF gridPresent THEN [k \in 1..SlotCount |-> FALSE] ELSE sleepData
    /\ UNCHANGED <<insightVars, navVars, pc, entrySleep, analysis, data, fillVars, aggVars,
                   trendVars>>

\* the click handler of slot i
toggleSleepSlot(i) ==
    /\ pc = "input"
    /\ Len(sleepData) = SlotCount
    /\ sleepData' = [sleepData EXCEPT ![i + 1] = ~sleepData[i + 1]]
    /\ UNCHANGED <<insightVars, navVars, pc, sleepInitialized, entrySleep, analysis, data, fillVars,
                   aggVars, trendVars>>

\* the entry is saved with the grid as its sleep array, or without one, and
\* the analytics page analyzes it
AnalyzeEntry ==
    /\ pc = "input"
    /\ \E saved \in {Some(sleepData), Undefined} :
          /\ entrySleep' = saved
          /\ analysis' = Some(analyzeSleepData(saved))
    /\ pc' = "analyzed"
    /\ UNCHANGED <<insightVars, navVars, sleepInitialized, sleepData, data, fillVars,
                   aggVars, trendVars>>

NextSleep ==
    \/ initSleepTracker
    \/ \E near \in {PresetsNear(sleepData)} :
          \E i \in 0..(SlotCount - 1) : StaysNear(near, sleepData, i) /\ toggleSleepSlot(i)
    \/ AnalyzeEntry

SpecSleep == InitSleep /\ [][NextSleep]_vars

-----------------------------------------------------------------------------
(* Claims about the sleep interval analyzer                                 *)

\* the saved array has 48 slots
HasGrid == IsDefined(entrySleep) /\ Len(Get(entrySleep)) = SlotCount

SomeAsleep == HasGrid /\ \E k \in 1..SlotCount : Get(entrySleep)[k]

\* the maximal runs of asleep slots of arr, as pairs of 0-based slot indices:
\* a run starts after an awake slot (or at slot 0), ends before one (or at
\* slot 47) and holds asleep slots only
RunsOf(arr) ==
    LET starts == {a \in 0..(SlotCount - 1) : arr[a + 1] /\ (a = 0 \/ ~arr[a])}
        ends == {b \in 0..(SlotCount - 1) : arr[b + 1] /\ (b = SlotCount - 1 \/ ~arr[b + 2])}
    IN  {r \in starts \X ends : r[1] <= r[2] /\ \A k \in r[1]..r[2] : arr[k + 1]}

\* HH:MM with HH = floor(slot / 2) and MM = 30 * (slot mod 2), digit by digit
ClockOfSlot(slot) ==
    <<Digits[((slot \div 2) \div 10) + 1], Digits[((slot \div 2) % 10) + 1], ":",
      Digits[(3 * (slot % 2)) + 1], "0">>

\* C3: with at least one asleep slot, the main sleep is a maximal run of
\* asleep slots that no other run exceeds in length (runs are not joined
\* across slot 47 / slot 0); bedtime is the clock time of its first slot and
\* wakeTime that of the slot after its last.  Asleep in 0..13 only gives
\* 00:00, 07:00 and 7 hours; asleep in 44..47 and 0..13 gives the run 0..13.
C3_MainSleepIsLongestRun ==
    (pc = "analyzed" /\ SomeAsleep) =>
        LET arr == Get(entrySleep)
            an == Get(analysis)
            runs == RunsOf(arr)
        IN  /\ \E r \in runs :
                  /\ \A q \in runs : q[2] - q[1] <= r[2] - r[1]
                  /\ an.bedtime = Some(ClockOfSlot(r[1]))
                  /\ an.wakeTime = Some(ClockOfSlot(r[2] + 1))
                  /\ FracEq(Get(an.mainSleepDuration), Frac(r[2] - r[1] + 1, 2))
            /\ arr = SlotsAsleep(0..13) =>
                  /\ an.bedtime = Some(<<"0", "0", ":", "0", "0">>)
                  /\ an.wakeTime = Some(<<"0", "7", ":", "0", "0">>)
                  /\ FracEq(an.duration, Frac(7, 1))
            /\ arr = SlotsAsleep((44..47) \cup (0..13)) =>
                  /\ an.bedtime = Some(<<"0", "0", ":", "0", "0">>)
                  /\ an.wakeTime = Some(<<"0", "7", ":", "0", "0">>)
                  /\ FracEq(Get(an.mainSleepDuration), Frac(7, 1))

\* the split night 22:00-24:00 plus 00:00-07:00 has been analyzed
C3_Witness ==
    /\ pc = "analyzed"
    /\ entrySleep = Some(SlotsAsleep((44..47) \cup (0..13)))
    /\ Get(analysis).hasNaps

IsClockString(t) ==
    /\ Len(t) = 5
    /\ t[3] = ":"
    /\ \E h \in 0..23 : <<t[1], t[2]>> = <<Digits[(h \div 10) + 1], Digits[(h % 10) + 1]>>
    /\ <<t[4], t[5]>> \in {<<"0", "0">>, <<"3", "0">>}

MainRunEndsAtLastSlot ==
    /\ SomeAsleep
    /\ \E p \in {MainSleepOf(Get(analysis).periods)} : p.end = SlotCount - 1

\* C4: when the main sleep ends at slot 47 the wake time is 00:00; bedtime
\* and wakeTime are always HH:MM with HH in 00..23 and MM in {00, 30}.
C4_WakeWrapsToMidnight ==
    (pc = "analyzed" /\ SomeAsleep) =>
        LET an == Get(analysis)
        IN  /\ MainRunEndsAtLastSlot => an.wakeTime = Some(<<"0", "0", ":", "0", "0">>)
            /\ IsClockString(Get(an.bedtime))
            /\ IsClockString(Get(an.wakeTime))

\* C5: an array of 48 slots with none asleep, an absent array and an array
\* of another length all give the zeroed result: duration 0, bedtime null,
\* wakeTime null, hasNaps false, no periods; a result is always returned.
C5_ZeroedWithoutSleep ==
    pc = "analyzed" =>
        /\ IsDefined(analysis)
        /\ ~SomeAsleep =>
              LET an == Get(analysis)
              IN  /\ FracEq(an.duration, Frac(0, 1))
                  /\ an.bedtime = Undefined
                  /\ an.wakeTime = Undefined
                  /\ an.hasNaps = FALSE
                  /\ an.periods = <<>>

\* a grid of 48 awake slots has been analyzed
C5_Witness ==
    /\ pc = "analyzed"
    /\ entrySleep = Some(SlotsAsleep({}))
    /\ Get(analysis).bedtime = Undefined

\* an absent array and the empty array of an uninitialized tracker as well
C5_WitnessNoGrid ==
    /\ pc = "analyzed"
    /\ ~HasGrid

-----------------------------------------------------------------------------
(* Scenarios: the granularity aggregators (SpecAgg, SpecSleepAgg)           *)

\* chunk sizes handed to the day aggregators: 7 is what the charts pass
ChunkSizes == {3, 7}

SleepChunkSizes == {2, 7}

AddDays(d, n) == setDate(d, getDate(d) + n)

\* the next day of a gap-filled series: a baseline entry or a stored one
NextDayEntries(bodies, sleeps) ==
    LET dateStr == formatDate(AddDays(startDate, Len(data)))
    IN  {BaselineEntry(dateStr)}
            \cup {StoredEntry(dateStr, body, sl) : body \in bodies, sl \in sleeps}

AggBodies == {ExampleBody, PartialBody}

\* sleep values of stored entries: none, all awake, 23:00-24:00, 01:00-08:00,
\* 06:00-10:30, 00:30-07:00 with a nap 14:00-15:00
AggSleeps ==
    {Undefined,
     Some(SlotsAsleep({})),
     Some(SlotsAsleep(46..47)),
     Some(SlotsAsleep(2..15)),
     Some(SlotsAsleep(12..20)),
     Some(SlotsAsleep((1..13) \cup (28..29)))}

\* a gap-filled series that starts on 2024-02-27
InitAgg ==
    /\ pc = "input"
    /\ startDate = MidnightOf(BaseDay + 1)
    /\ endDate = startDate
    /\ data = <<>>
    /\ filled = <<>>
    /\ IdleInsight /\ IdleNav /\ IdleAgg /\ IdleSleep /\ IdleTrend

\* a gap-filled series that starts on 2024-02-28
InitSleepAgg ==
    /\ pc = "input"
    /\ startDate = MidnightOf(BaseDay + 2)
    /\ endDate = startDate
    /\ data = <<>>
    /\ filled = <<>>
    /\ IdleInsight /\ IdleNav /\ IdleAgg /\ IdleSleep /\ IdleTrend

AppendDay ==
    /\ pc = "input"
    /\ Len(data) < MaxDays
    /\ \E e \in NextDayEntries(AggBodies, {Undefined}) : data' = Append(data, e)
    /\ UNCHANGED <<insightVars, navVars, pc, fillVars, aggVars, sleepVars, trendVars>>

AppendSleepDay ==
    /\ pc = "input"
    /\ Len(data) < MaxSleepDays
    /\ \E e \in NextDayEntries({ExampleBody}, AggSleeps) : data' = Append(data, e)
    /\ UNCHANGED <<insightVars, navVars, pc, fillVars, aggVars, sleepVars, trendVars>>

\* renderBarChart and renderSleepBarChart of one view with N-day chunks
RenderByDays(sizes) ==
    /\ pc = "input"
    /\ \E size \in sizes :
          /\ chunkSize' = size
          /\ chart' = _aggregateByDays(data, size)
          /\ sleepChart' = _aggregateSleepRaw(data, size)
    /\ pc' = "byDays"
    /\ UNCHANGED <<insightVars, navVars, data, fillVars, sleepVars, trendVars>>

\* renderBarChart and renderSleepBarChart of the year view
RenderByMonth ==
    /\ pc = "input"
    /\ chart' = _aggregateByMonth(data)
    /\ sleepChart' = _aggregateSleepByMonth(data)
    /\ pc' = "byMonth"
    /\ UNCHANGED <<insightVars, navVars, data, chunkSize, fillVars, sleepVars, trendVars>>

NextAgg == AppendDay \/ RenderByDays(ChunkSizes) \/ RenderByMonth

SpecAgg == InitAgg /\ [][NextAgg]_vars

NextSleepAgg == AppendSleepDay \/ RenderByDays(SleepChunkSizes) \/ RenderByMonth

SpecSleepAgg == InitSleepAgg /\ [][NextSleepAgg]_vars

-----------------------------------------------------------------------------
(* Claims about the scalar aggregators                                      *)

\* the positions of data that fall into the k-th chunk of chunkSize days
ChunkMembers(k) ==
    {i \in 1..Len(data) : (k - 1) * chunkSize < i /\ i <= k * chunkSize}

\* the positions of data whose date lies in the month of dateStr
MonthMembers(dateStr) ==
    {i \in 1..Len(data) : SubSeq(data[i].date, 1, 7) = SubSeq(dateStr, 1, 7)}

IsFour(x) == x.num = 4 * x.den

HasDefaultScalars(b) ==
    /\ IsFour(b.energy.highest) /\ IsFour(b.energy.lowest)
    /\ IsFour(b.mood.highest) /\ IsFour(b.mood.lowest)
    /\ IsFour(b.anxiety) /\ IsFour(b.irritability)

\* C6: the scalar aggregators emit one bucket per chunk (ceil(len/chunkSize)
\* buckets) or per distinct YYYY-MM month, in input order; a bucket is marked
\* missing exactly when all of its members are missing, and an all-missing
\* bucket carries the default 4 in every scalar and is dated at the chunk's
\* first date (at YYYY-MM-01 for a month).
C6_OneBucketPerChunk ==
    /\ pc = "byDays" =>
          /\ Len(chart) * chunkSize >= Len(data)
          /\ (Len(chart) - 1) * chunkSize < Len(data) \/ Len(chart) = 0
          /\ \A k \in 1..Len(chart) :
                /\ chart[k].isMissing <=> \A i \in ChunkMembers(k) : data[i].isMissing
                /\ chart[k].isMissing =>
                      /\ HasDefaultScalars(chart[k])
                      /\ chart[k].date = data[(k - 1) * chunkSize + 1].date
    /\ pc = "byMonth" =>
          /\ Len(chart) = Cardinality({SubSeq(data[i].date, 1, 7) : i \in 1..Len(data)})
          /\ \A k \in 1..Len(chart) :
                /\ MonthMembers(chart[k].date) # {}
                /\ SubSeq(chart[k].date, 8, Len(chart[k].date)) = <<"-", "0", "1">>
                /\ \A j \in 1..(k - 1) :
                      \E i \in MonthMembers(chart[j].date) :
                          \A l \in MonthMembers(chart[k].date) : i < l
                /\ chart[k].isMissing <=>
                      \A i \in MonthMembers(chart[k].date) : data[i].isMissing
                /\ chart[k].isMissing => HasDefaultScalars(chart[k])

\* eight days in chunks of three: three buckets, the first all missing, the
\* second with a missing and a stored member, the last a partial chunk
C6_Witness ==
    /\ pc = "byDays"
    /\ chunkSize = 3
    /\ Len(data) = 8
    /\ Len(chart) = 3
    /\ chart[1].isMissing
    /\ ~chart[2].isMissing
    /\ \E i \in ChunkMembers(2) : data[i].isMissing

RECURSIVE SumOver(_, _)
\* the sum of f over the finite set S
SumOver(S, f) ==
    IF S = {} THEN 0
    ELSE LET i == CHOOSE x \in S : TRUE IN f[i] + SumOver(S \ {i}, f)

\* total / count to one decimal, halves upwards, in tenths
TenthsHalfUp(total, count) == (20 * total + count) \div (2 * count)

\* a scale value, an absent one read as d
ScaleOr(v, d) == IF v = <<>> THEN d ELSE v[1]

HighOr(v, d) == IF v = <<>> THEN d ELSE v[1].highest

LowOr(v, d) == IF v = <<>> THEN d ELSE v[1].lowest

IsMeanOf(x, S, f) == x.num * 10 = TenthsHalfUp(SumOver(S, f), Cardinality(S)) * x.den

\* C7: in a bucket of _aggregateByDays with a non-missing member, each scalar
\* is the sum of the field over the non-missing members divided by the number
\* of non-missing members, rounded half-up to one decimal (a field a member
\* does not carry read as the documented default 4, or as 0).
C7_MeanOverNonMissing ==
    pc = "byDays" =>
        \A k \in 1..Len(chart) :
            LET S == {i \in ChunkMembers(k) : ~data[i].isMissing}
            IN  S # {} =>
                  \E d \in {0, 4} :
                    /\ IsMeanOf(chart[k].energy.highest, S, [i \in S |-> HighOr(data[i].energy, d)])
                    /\ IsMeanOf(chart[k].energy.lowest, S, [i \in S |-> LowOr(data[i].energy, d)])
                    /\ IsMeanOf(chart[k].mood.highest, S, [i \in S |-> HighOr(data[i].mood, d)])
                    /\ IsMeanOf(chart[k].mood.lowest, S, [i \in S |-> LowOr(data[i].mood, d)])
                    /\ IsMeanOf(chart[k].anxiety, S, [i \in S |-> ScaleOr(data[i].anxiety, d)])
                    /\ IsMeanOf(chart[k].irritability, S,
                                [i \in S |-> ScaleOr(data[i].irritability, d)])

\* the same statement holds of the buckets whose non-missing members all
\* carry every field
MeanOverCompleteMembers ==
    pc = "byDays" =>
        \A k \in 1..Len(chart) :
            LET S == {i \in ChunkMembers(k) : ~data[i].isMissing}
                complete == \A i \in S : /\ data[i].energy # <<>> /\ data[i].mood # <<>>
                                         /\ data[i].anxiety # <<>>
                                         /\ data[i].irritability # <<>>
            IN  (S # {} /\ complete) =>
                    /\ IsMeanOf(chart[k].energy.highest, S, [i \in S |-> HighOr(data[i].energy, 4)])
                    /\ IsMeanOf(chart[k].energy.lowest, S, [i \in S |-> LowOr(data[i].energy, 4)])
                    /\ IsMeanOf(chart[k].mood.highest, S, [i \in S |-> HighOr(data[i].mood, 4)])
                    /\ IsMeanOf(chart[k].mood.lowest, S, [i \in S |-> LowOr(data[i].mood, 4)])
                    /\ IsMeanOf(chart[k].anxiety, S, [i \in S |-> ScaleOr(data[i].anxiety, 4)])
                    /\ IsMeanOf(chart[k].irritability, S,
                                [i \in S |-> ScaleOr(data[i].irritability, 4)])

-----------------------------------------------------------------------------
(* Claims about the sleep aggregators                                       *)

\* the sleep analysis of every day of data
Analyses == [i \in 1..Len(data) |-> analyzeSleepData(data[i].sleep)]

\* the non-missing days whose sleep analysis an has a duration above zero
Sleepers(an) == {i \in 1..Len(data) : ~data[i].isMissing /\ an[i].duration.num > 0}

\* the date of the bucket that day i of data is aggregated into
BucketDateOf(i) ==
    IF pc = "byMonth" THEN SubSeq(data[i].date, 1, 7) \o <<"-", "0", "1">>
    ELSE data[((i - 1) \div chunkSize) * chunkSize + 1].date

\* the minutes after midnight of a clock string HH:MM
ClockMinutes(t) ==
    (10 * DigitValue(t[1]) + DigitValue(t[2])) * 60 + 10 * DigitValue(t[4]) + DigitValue(t[5])

\* the clock string of m minutes after midnight, 0 <= m < 1440
ClockOfMinutes(m) ==
    <<Digits[((m \div 60) \div 10) + 1], Digits[((m \div 60) % 10) + 1], ":",
      Digits[((m % 60) \div 10) + 1], Digits[((m % 60) % 10) + 1]>>

\* a bedtime before 06:00 counts as one of the night before
ShiftedBed(m) == IF m < 360 THEN m + 1440 ELSE m

\* total / count to the nearest whole minute, halves upwards
NearestMinute(total, count) == (2 * total + count) \div (2 * count)

Rendered == pc \in {"byDays", "byMonth"}

\* C8: the bedtime of a sleep bucket is the circular mean of its members'
\* bedtimes: each bedtime below 360 minutes is shifted by 1440 before the
\* mean, and the mean is taken modulo 1440 for display, so bedtimes 23:00 and
\* 01:00 give 00:00; the wake time is the plain mean of the members' wake
\* times.
C8_CircularBedtimeMean ==
    Rendered =>
        LET an == Analyses
            sleepers == Sleepers(an)
            bed == [i \in sleepers |-> ClockMinutes(an[i].bedtime[1])]
            wake == [i \in sleepers |-> ClockMinutes(an[i].wakeTime[1])]
        IN  \A k \in 1..Len(sleepChart) :
                LET b == sleepChart[k]
                    S == {i \in sleepers : BucketDateOf(i) = b.date}
                    n == Cardinality(S)
                    bedSum == SumOver(S, [i \in S |-> ShiftedBed(bed[i])])
                    wakeSum == SumOver(S, [i \in S |-> wake[i]])
                IN  /\ n > 0
                    /\ b.bedtime = ClockOfMinutes(NearestMinute(bedSum, n) % 1440)
                    /\ b.bedtimeMinutes.num * n = (bedSum % (1440 * n)) * b.bedtimeMinutes.den
                    /\ b.wakeTime = ClockOfMinutes(NearestMinute(wakeSum, n) % 1440)
                    /\ b.wakeTimeMinutes.num * n = wakeSum * b.wakeTimeMinutes.den
                    /\ (n = 2 /\ {bed[i] : i \in S} = {1380, 60}) =>
                           b.bedtime = <<"0", "0", ":", "0", "0">>

\* a bucket of two nights with bedtimes 23:00 and 01:00, shown as 00:00
C8_Witness ==
    /\ Rendered
    /\ \E k \in 1..Len(sleepChart) :
          LET S == {i \in Sleepers(Analyses) : BucketDateOf(i) = sleepChart[k].date}
          IN  /\ Cardinality(S) = 2
              /\ {ClockMinutes(Analyses[i].bedtime[1]) : i \in S} = {1380, 60}
              /\ sleepChart[k].bedtime = <<"0", "0", ":", "0", "0">>

\* C9: the sleep aggregators emit a bucket for a chunk (or month) exactly
\* when it has a non-missing member whose sleep analysis has duration > 0,
\* in input order; no bucket has duration zero, and the sleep aggregate is
\* never longer than the scalar aggregate of the same data.
C9_SleepBucketIffSleep ==
    Rendered =>
        LET live == {BucketDateOf(i) : i \in Sleepers(Analyses)}
        IN  /\ {sleepChart[k].date : k \in 1..Len(sleepChart)} = live
            /\ Len(sleepChart) = Cardinality(live)
            /\ \A k \in 1..Len(sleepChart) :
                  /\ sleepChart[k].duration.num > 0
                  /\ \A j \in 1..(k - 1) : StrLess(sleepChart[j].date, sleepChart[k].date)
            /\ Len(sleepChart) <= Len(chart)

\* a chunk without sleep is dropped: the sleep aggregate is shorter than the
\* scalar aggregate, and not empty
C9_Witness ==
    /\ Rendered
    /\ Len(sleepChart) > 0
    /\ Len(sleepChart) < Len(chart)
    /\ \E i \in 1..Len(data) : ~data[i].isMissing /\ i \notin Sleepers(Analyses)

-----------------------------------------------------------------------------
(* Scenario: the trend of a series of scale values (SpecTrend)              *)

\* the scale of energy, mood, anxiety and irritability
ScaleValues == 1..7

\* the change of a value from one day to the next
DayChanges == {-1, 0, 1}

InitTrend ==
    /\ pc = "input"
    /\ data = <<>>
    /\ IdleFill /\ IdleInsight /\ IdleNav /\ IdleAgg /\ IdleSleep /\ IdleTrend

AppendValue ==
    /\ pc = "input"
    /\ Len(values) < MaxValues
    /\ \E v \in ScaleValues :
          /\ IF values = <<>> THEN TRUE ELSE v - values[Len(values)] \in DayChanges
          /\ values' = Append(values, v)
    /\ UNCHANGED <<insightVars, navVars, pc, data, trend, fillVars, aggVars, sleepVars>>

FindTrend ==
    /\ pc = "input"
    /\ trend' = Some(findTrend(values))
    /\ pc' = "done"
    /\ UNCHANGED <<insightVars, navVars, data, values, fillVars, aggVars, sleepVars>>

NextTrend == AppendValue \/ FindTrend

SpecTrend == InitTrend /\ [][NextTrend]_vars

-----------------------------------------------------------------------------
(* Claims about findTrend                                                   *)

\* n * n times the covariance sum of index and value about their means
CenteredXY ==
    LET n == Len(values)
        sx == SumOver(1..n, [k \in 1..n |-> k - 1])
        sy == SumOver(1..n, [k \in 1..n |-> values[k]])
    IN  SumOver(1..n, [k \in 1..n |-> (n * (k - 1) - sx) * (n * values[k] - sy)])

\* n * n times the sum of squares of the index about its mean
CenteredXX ==
    LET n == Len(values)
        sx == SumOver(1..n, [k \in 1..n |-> k - 1])
    IN  SumOver(1..n, [k \in 1..n |-> (n * (k - 1) - sx) * (n * (k - 1) - sx)])

\* C10: findTrend is Stable for fewer than 2 values; otherwise it is
\* Increasing iff the least-squares slope of value against 0-based index is
\* above 0.05, Decreasing iff it is below -0.05, and Stable otherwise;
\* [4,4,4,4,4] is Stable, [1,2,3,4,5,6,7] Increasing, [7,6,5,4,3,2,1]
\* Decreasing.
C10_TrendBySlope ==
    pc = "done" =>
        /\ Len(values) < 2 => trend = <<"Stable">>
        /\ Len(values) >= 2 =>
              /\ CenteredXX > 0
              /\ trend = <<"Increasing">> <=> 20 * CenteredXY > CenteredXX
              /\ trend = <<"Decreasing">> <=> 20 * CenteredXY < -CenteredXX
              /\ trend \in {<<"Increasing">>, <<"Decreasing">>, <<"Stable">>}
        /\ values = <<4, 4, 4, 4, 4>> => trend = <<"Stable">>
        /\ values = <<1, 2, 3, 4, 5, 6, 7>> => trend = <<"Increasing">>
        /\ values = <<7, 6, 5, 4, 3, 2, 1>> => trend = <<"Decreasing">>

\* a series that rises by less than 0.05 a day and is found Stable
C10_Witness ==
    /\ pc = "done"
    /\ Len(values) >= 2
    /\ CenteredXY > 0
    /\ trend = <<"Stable">>

-----------------------------------------------------------------------------
(* Scenario: the correlation of two series (SpecCorr)                       *)

\* the values of the two series
CorrValues == 1..4

InitCorr ==
    /\ pc = "input"
    /\ data = <<>>
    /\ IdleFill /\ IdleInsight /\ IdleNav /\ IdleAgg /\ IdleSleep /\ IdleTrend

AppendFirst ==
    /\ pc = "input"
    /\ Len(values) < MaxCorrLen
    /\ \E v \in CorrValues : values' = Append(values, v)
    /\ UNCHANGED <<pc, data, trend, values2, correlation, insights, navVars, fillVars,
                   aggVars, sleepVars>>

AppendSecond ==
    /\ pc = "input"
    /\ Len(values2) < MaxCorrLen
    /\ \E v \in CorrValues : values2' = Append(values2, v)
    /\ UNCHANGED <<pc, data, trendVars, correlation, insights, navVars, fillVars, aggVars,
                   sleepVars>>

Correlate ==
    /\ pc = "input"
    /\ correlation' = calculateCorrelation(values, values2)
    /\ pc' = "correlated"
    /\ UNCHANGED <<data, trendVars, values2, insights, navVars, fillVars, aggVars,
                   sleepVars>>

NextCorr == AppendFirst \/ AppendSecond \/ Correlate

SpecCorr == InitCorr /\ [][NextCorr]_vars

-----------------------------------------------------------------------------
(* Claims about calculateCorrelation                                        *)

\* all elements of the series are equal
IsConstant(xs) == \A i, j \in 1..Len(xs) : xs[i] = xs[j]

Reversed(xs) == [i \in 1..Len(xs) |-> xs[Len(xs) + 1 - i]]

\* ys is xs mirrored in value: ys[i] = c - xs[i] for one c
IsMirrorOf(ys, xs) ==
    /\ Len(ys) = Len(xs)
    /\ \A i, j \in 1..Len(xs) : ys[i] + xs[i] = ys[j] + xs[j]

NullCase ==
    \/ Len(values) # Len(values2)
    \/ Len(values) < 2
    \/ IsConstant(values)
    \/ IsConstant(values2)

\* the result is the number 1 (sign = 1) or -1 (sign = -1)
IsUnit(r, sign) ==
    /\ r # <<>>
    /\ r[1].numerator * sign > 0
    /\ r[1].numerator * r[1].numerator = r[1].denominator1 * r[1].denominator2

\* the result is null in the null case and otherwise a number in [-1, 1]
NullOrNumber ==
    /\ correlation = <<>> <=> NullCase
    /\ correlation # <<>> =>
          /\ correlation[1].denominator1 * correlation[1].denominator2 > 0
          /\ correlation[1].numerator * correlation[1].numerator
                 <= correlation[1].denominator1 * correlation[1].denominator2

-----------------------------------------------------------------------------
(* Scenario: the caffeine comparison (SpecCaffeine)                         *)

\* a stored entry with the fields the pattern miners read
PatternEntry(dateStr, body) ==
    [date |-> dateStr,
     energy |-> body.energy,
     mood |-> body.mood,
     anxiety |-> body.anxiety,
     irritability |-> body.irritability,
     caffeine |-> body.caffeine,
     activities |-> body.activities,
     people |-> body.people,
     sleepDuration |-> body.sleepDuration,
     sleep |-> body.sleep,
     isMissing |-> FALSE]

\* the fields of a body that a scenario does not vary
PlainBody ==
    [energy |-> Some([highest |-> 5, lowest |-> 4]),
     mood |-> Some([highest |-> 4, lowest |-> 4]),
     anxiety |-> Some(5),
     irritability |-> Some(2),
     caffeine |-> Undefined,
     activities |-> Undefined,
     people |-> Undefined,
     sleepDuration |-> Undefined,
     sleep |-> Undefined]

\* a day with 100 mg of caffeine
CafHigh ==
    [PlainBody EXCEPT !.caffeine = Some(100),
                      !.energy = Some([highest |-> 6, lowest |-> 2]),
                      !.mood = Some([highest |-> 6, lowest |-> 3]),
                      !.irritability = Some(3)]

\* a day with 50 mg of caffeine, saved without the energy field
CafLow ==
    [PlainBody EXCEPT !.caffeine = Some(50),
                      !.energy = Undefined,
                      !.mood = Some([highest |-> 7, lowest |-> 5]),
                      !.anxiety = Some(4),
                      !.irritability = Some(3)]

\* a day with caffeine recorded as 0, saved without the anxiety field
CafZero ==
    [PlainBody EXCEPT !.caffeine = Some(0),
                      !.energy = Some([highest |-> 6, lowest |-> 3]),
                      !.mood = Some([highest |-> 5, lowest |-> 2]),
                      !.anxiety = Undefined,
                      !.irritability = Some(3)]

CaffeineBodies == {CafHigh, CafLow, CafZero, PlainBody}

InitPattern ==
    /\ pc = "input"
    /\ startDate = MidnightOf(BaseDay)
    /\ endDate = startDate
    /\ data = <<>>
    /\ filled = <<>>
    /\ IdleInsight /\ IdleNav /\ IdleAgg /\ IdleSleep /\ IdleTrend

\* one more stored day, dated the day after the last
AppendPatternDay(bodies, maxDays) ==
    /\ pc = "input"
    /\ Len(data) < maxDays
    /\ \E body \in bodies :
          data' = Append(data,
                      PatternEntry(formatDate(AddDays(startDate, Len(data))), body))
    /\ UNCHANGED <<pc, insightVars, navVars, fillVars, aggVars, sleepVars, trendVars>>

AnalyzeCaffeine ==
    /\ pc = "input"
    /\ insights' = analyzeCaffeineImpact(data)
    /\ pc' = "caffeine"
    /\ UNCHANGED <<data, values2, correlation, navVars, fillVars, aggVars, sleepVars,
                   trendVars>>

NextCaffeine == AppendPatternDay(CaffeineBodies, MaxCaffeineDays) \/ AnalyzeCaffeine

SpecCaffeine == InitPattern /\ [][NextCaffeine]_vars

-----------------------------------------------------------------------------
(* Claims about analyzeCaffeineImpact                                       *)

\* the days of data with caffeine above zero, and those with none
WithCaffeine ==
    {i \in 1..Len(data) : data[i].caffeine # <<>> /\ data[i].caffeine[1] > 0}

WithoutCaffeine ==
    {i \in 1..Len(data) : data[i].caffeine = <<>> \/ data[i].caffeine[1] = 0}

\* the value of a metric on day i: the highest value of energy and mood,
\* an absent or zero value read as 4
ValueOn(i, metric) ==
    LET f == data[i][metric]
        v == IF f = <<>> THEN 0
             ELSE IF metric \in {"energy", "mood"} THEN f[1].highest ELSE f[1]
    IN  IF v = 0 THEN 4 ELSE v

TotalOn(S, metric) == SumOver(S, [i \in S |-> ValueOn(i, metric)])

\* mean over W minus mean over O, times |W| * |O|
ScaledDiff(W, O, metric) ==
    TotalOn(W, metric) * Cardinality(O) - TotalOn(O, metric) * Cardinality(W)

\* n is an integer nearest to 100 * |mean W - mean O| / mean O
IsNearestPct(n, W, O, metric) ==
    LET num == 100 * Abs(ScaledDiff(W, O, metric))
        den == TotalOn(O, metric) * Cardinality(W)
    IN  /\ den > 0
        /\ 2 * Abs(n * den - num) <= den

StatementsAbout(metric) ==
    {k \in 1..Len(insights) : insights[k].subject = metric}

\* C12: analyzeCaffeineImpact gives a statement for a metric exactly when the
\* caffeine > 0 group and the caffeine = 0 group are both non-empty and their
\* means differ by at least 0.5; its percentage is |meanWith - meanWithout| /
\* meanWithout * 100 rounded to an integer; three days with caffeine and mood
\* 6 against three without and mood 4 give "50% higher".
C12_CaffeineStatement ==
    pc = "caffeine" =>
        \A metric \in {"energy", "mood", "anxiety", "irritability"} :
            LET W == WithCaffeine
                O == WithoutCaffeine
                told == StatementsAbout(metric)
            IN  /\ Cardinality(told) <= 1
                /\ told # {} <=>
                      /\ W # {} /\ O # {}
                      /\ 2 * Abs(ScaledDiff(W, O, metric)) >= Cardinality(W) * Cardinality(O)
                /\ \A k \in told :
                      /\ \E n \in 0..600 :
                            insights[k].pct = ToString(n) /\ IsNearestPct(n, W, O, metric)
                      /\ insights[k].direction \in {"higher", "worse"}
                             <=> ScaledDiff(W, O, metric) > 0
                /\ (/\ metric = "mood"
                    /\ Cardinality(W) = 3 /\ Cardinality(O) = 3
                    /\ TotalOn(W, metric) = 18 /\ TotalOn(O, metric) = 12) =>
                       \E k \in told : /\ insights[k].pct = <<"5", "0">>
                                       /\ insights[k].direction = "higher"

\* three days with caffeine and mood 6, three without and mood 4
C12_Witness ==
    /\ pc = "caffeine"
    /\ Cardinality(WithCaffeine) = 3
    /\ Cardinality(WithoutCaffeine) = 3
    /\ TotalOn(WithCaffeine, "mood") = 18
    /\ TotalOn(WithoutCaffeine, "mood") = 12
    /\ \E k \in StatementsAbout("mood") :
          insights[k].pct = <<"5", "0">> /\ insights[k].direction = "higher"

-----------------------------------------------------------------------------
(* Scenario: the sleep-duration comparison (SpecSleepImpact)                *)

\* a stored day with the sleep grid 00:00-07:00, as the tracker saves it
SleptSeven ==
    [PlainBody EXCEPT !.sleep = Some(SlotsAsleep(0..13)),
                      !.mood = Some([highest |-> 6, lowest |-> 3])]

\* a stored day with the sleep grid 01:00-05:30
SleptFourAndHalf ==
    [PlainBody EXCEPT !.sleep = Some(SlotsAsleep(2..10)),
                      !.mood = Some([highest |-> 3, lowest |-> 2])]

\* a day that carries a sleepDuration of h hours
WithDurationField(h, moodHigh) ==
    [PlainBody EXCEPT !.sleepDuration = Some(h),
                      !.mood = Some([highest |-> moodHigh, lowest |-> 2])]

SleepImpactBodies ==
    {SleptSeven, SleptFourAndHalf, PlainBody,
     WithDurationField(Frac(4, 1), 3),
     WithDurationField(Frac(9, 2), 5),
     WithDurationField(Frac(6, 1), 6),
     WithDurationField(Frac(9, 1), 4)}

\* the statements and the categories they are drawn from
AnalyzeSleepImpact ==
    /\ pc = "input"
    /\ insights' = [statements |-> analyzeSleepImpact(data),
                    categories |-> SleepCategories(data)]
    /\ pc' = "sleepImpact"
    /\ UNCHANGED <<data, values2, correlation, navVars, fillVars, aggVars, sleepVars,
                   trendVars>>

NextSleepImpact ==
    AppendPatternDay(SleepImpactBodies, MaxSleepImpactDays) \/ AnalyzeSleepImpact

SpecSleepImpact == InitPattern /\ [][NextSleepImpact]_vars

-----------------------------------------------------------------------------
(* Claims about analyzeSleepImpact                                          *)

InCategory(cat, e) == \E k \in 1..Len(cat) : cat[k] = e

\* the number of the three categories that hold entry e
CategoriesHolding(e) ==
    (IF InCategory(insights.categories.littleSleep, e) THEN 1 ELSE 0)
    + (IF InCategory(insights.categories.averageSleep, e) THEN 1 ELSE 0)
    + (IF InCategory(insights.categories.lotsSleep, e) THEN 1 ELSE 0)

\* C13: the sleep-duration analysis puts every valid entry that has sleep
\* data into exactly one of the buckets 0-4h, 5-8h and 8h+, by the total
\* duration the sleep analyzer computes from the entry's sleep array.
C13_EveryDayInOneBucket ==
    pc = "sleepImpact" =>
        \A i \in 1..Len(data) :
            data[i].sleep # <<>> =>
                LET hours == analyzeSleepData(data[i].sleep).duration
                IN  /\ CategoriesHolding(data[i]) = 1
                    /\ hours.num <= 4 * hours.den =>
                           InCategory(insights.categories.littleSleep, data[i])
                    /\ hours.num > 8 * hours.den =>
                           InCategory(insights.categories.lotsSleep, data[i])

\* the same for the days that carry a sleepDuration field
C13_DurationFieldInOneBucket ==
    pc = "sleepImpact" =>
        \A i \in 1..Len(data) :
            data[i].sleepDuration # <<>> => CategoriesHolding(data[i]) = 1

-----------------------------------------------------------------------------
(* Scenario: the tag comparisons (SpecTags)                                 *)

\* a stored day with the activities and people given
TagBody(acts, persons, moodHigh) ==
    [PlainBody EXCEPT !.activities = acts,
                      !.people = persons,
                      !.mood = Some([highest |-> moodHigh, lowest |-> 1])]

TagBodies ==
    {TagBody(Some(<<"run", "read", "yoga", "walk", "walk">>), Some(<<"ann">>), 7),
     TagBody(Undefined, Undefined, 1),
     TagBody(Some(<<"walk">>), Some(<<"ann", "bob", "cat", "dan">>), 4),
     TagBody(Some(<<"run", "read">>), Some(<<"bob", "bob">>), 6),
     TagBody(Some(<<>>), Some(<<"cat", "dan">>), 3)}

\* the statements, and the counts and the tags they rest on
TagInsights(field, statements) ==
    [field |-> field,
     statements |-> statements,
     examined |-> ExaminedTags(data, field),
     counts |-> [t \in {AllTags(data, field)[k] : k \in 1..Len(AllTags(data, field))} |->
                    TagCount(data, field, t)]]

AnalyzeActivities ==
    /\ pc = "input"
    /\ insights' = TagInsights("activities", analyzeActivityImpact(data))
    /\ pc' = "tags"
    /\ UNCHANGED <<data, values2, correlation, navVars, fillVars, aggVars, sleepVars,
                   trendVars>>

AnalyzePeople ==
    /\ pc = "input"
    /\ insights' = TagInsights("people", analyzePeopleImpact(data))
    /\ pc' = "tags"
    /\ UNCHANGED <<data, values2, correlation, navVars, fillVars, aggVars, sleepVars,
                   trendVars>>

NextTags == AppendPatternDay(TagBodies, MaxTagDays) \/ AnalyzeActivities \/ AnalyzePeople

SpecTags == InitPattern /\ [][NextTags]_vars

-----------------------------------------------------------------------------
(* Claims about analyzeActivityImpact and analyzePeopleImpact               *)

\* the list of tags of day i in the field analysed
TagList(i) ==
    IF data[i][insights.field] = <<>> THEN <<>> ELSE data[i][insights.field][1]

ListsTag(i, tag) == \E j \in 1..Len(TagList(i)) : TagList(i)[j] = tag

TagsListed == UNION {{TagList(i)[j] : j \in 1..Len(TagList(i))} : i \in 1..Len(data)}

\* how many times the tag is listed in all days together
TimesListed(tag) ==
    SumOver(1..Len(data),
            [i \in 1..Len(data) |-> Cardinality({j \in 1..Len(TagList(i)) : TagList(i)[j] = tag})])

DaysWith(tag) == {i \in 1..Len(data) : ListsTag(i, tag)}

DaysWithout(tag) == {i \in 1..Len(data) : ~ListsTag(i, tag)}

ExaminedSet == {insights.examined[k] : k \in 1..Len(insights.examined)}

RECURSIVE WithoutRepeats(_)
\* the list with every repeated tag dropped
WithoutRepeats(list) ==
    IF list = <<>> THEN <<>>
    ELSE LET front == WithoutRepeats(SubSeq(list, 1, Len(list) - 1))
             last == list[Len(list)]
         IN  IF \E k \in 1..Len(front) : front[k] = last THEN front ELSE Append(front, last)

\* data with every day's tags listed once
DataWithoutRepeats ==
    [i \in 1..Len(data) |->
        [data[i] EXCEPT ![insights.field] =
            IF data[i][insights.field] = <<>> THEN <<>>
            ELSE <<WithoutRepeats(data[i][insights.field][1])>>]]

\* C15: the frequency of a tag is the number of entries that contain it, a
\* tag listed more than once in one entry counting once, and the statements
\* given are those given for the same data with each day's tags listed once.
C15_PresencePerDay ==
    pc = "tags" =>
        /\ \A t \in DOMAIN insights.counts :
              insights.counts[t] = Cardinality(DaysWith(t))
        /\ insights.statements =
               (IF insights.field = "activities"
                THEN analyzeActivityImpact(DataWithoutRepeats)
                ELSE analyzePeopleImpact(DataWithoutRepeats))

-----------------------------------------------------------------------------
(* DATA_SCHEMA.md (insights code): the statistics of a period               *)

\* a variant of IsValid that keeps the placeholders of the gap filling
KeepsPlaceholders(e) == TRUE

\* the predicate of data.filter(entry => !entry.isMissing)
IsValid(e) == ~e.isMissing

\* const validData = data.filter(entry => !entry.isMissing)
ValidData(entries) == SelectSeq(entries, IsValid)

\* f.toFixed(digits) for digits 0 or 1, as the number of units of the last
\* digit printed: the nearest one, the one away from zero of two
toFixed(f, digits) ==
    LET scale == IF digits = 0 THEN 1 ELSE 10
        units == RoundDiv(Abs(f.num) * scale, f.den)
    IN  IF f.num < 0 THEN -units ELSE units

\* new Date(str) for a date-only string: midnight UTC of that date, which is
\* the evening before in a zone west of Greenwich
DateFromString(str, west) ==
    IF west THEN [day |-> DayNoOfString(str) - 1, ms |-> oneDay \div 2]
    ELSE [day |-> DayNoOfString(str), ms |-> 0]

\* d.getDay(): 0 for Sunday; 1970-01-01 was a Thursday
getDay(d) == (d.day + 4) % 7

fullNames == <<"Sunday", "Monday", "Tuesday", "Wednesday", "Thursday", "Friday", "Saturday">>

\* getDayOfWeek(date, true) for a date string
getDayOfWeek(str, west) == fullNames[getDay(DateFromString(str, west)) + 1]

\* the keys of grouped, in insertion order
GroupedDays == <<"Monday", "Tuesday", "Wednesday", "Thursday", "Friday", "Saturday", "Sunday">>

\* groupByDayOfWeek(data)[day]
groupByDayOfWeek(entries, day, west) ==
    LET OnDay(e) == getDayOfWeek(e.date, west) = day
    IN  SelectSeq(entries, OnDay)

\* the forEach of findBestDayOfWeek from the k-th key on
RECURSIVE BestDayFrom(_, _, _, _, _)
BestDayFrom(entries, metric, west, k, best) ==
    IF k > Len(GroupedDays) THEN best
    ELSE LET members == groupByDayOfWeek(entries, GroupedDays[k], west)
             avg == calculateAverage(
                        [i \in 1..Len(members) |-> HighestOrFour(members[i][metric])])
         IN  IF FracLess(best.avg, avg)
             THEN BestDayFrom(entries, metric, west, k + 1,
                              [day |-> Some(GroupedDays[k]), avg |-> avg])
             ELSE BestDayFrom(entries, metric, west, k + 1, best)

\* findBestDayOfWeek(data, metric, 'highest'): null or {day, avg}
findBestDayOfWeek(entries, metric, west) ==
    LET best == BestDayFrom(entries, metric, west, 1,
                            [day |-> Undefined, avg |-> Frac(-1, 1)])
    IN  IF IsDefined(best.day) THEN Some([day |-> Get(best.day), avg |-> best.avg])
        ELSE Undefined

calculateVolatility(entries, metric) ==
    calculateAverage([i \in 1..Len(entries) |->
        Abs(HighestOrFour(entries[i][metric]) - LowestOrFour(entries[i][metric]))])

\* validData.reduce((min, entry) => value(entry) < value(min) ? entry : min)
RECURSIVE ReduceMin(_, _, _)
ReduceMin(entries, metric, min) ==
    IF entries = <<>> THEN min
    ELSE IF ScaleOrFour(Head(entries)[metric]) < ScaleOrFour(min[metric])
         THEN ReduceMin(Tail(entries), metric, Head(entries))
         ELSE ReduceMin(Tail(entries), metric, min)

\* validData.reduce((max, entry) => value(entry) > value(max) ? entry : max)
RECURSIVE ReduceMax(_, _, _)
ReduceMax(entries, metric, max) ==
    IF entries = <<>> THEN max
    ELSE IF ScaleOrFour(Head(entries)[metric]) > ScaleOrFour(max[metric])
         THEN ReduceMax(Tail(entries), metric, Head(entries))
         ELSE ReduceMax(Tail(entries), metric, max)

\* the label of the trend of anxiety and irritability
trendLabel(t) ==
    IF t = "Increasing" THEN "Rising" ELSE IF t = "Decreasing" THEN "Declining" ELSE "Stable"

\* values.filter(v => v < avg).length
BelowAvg(vals, avg) ==
    Cardinality({i \in 1..Len(vals) : FracLess(Frac(vals[i], 1), avg)})

\* The statements of calculateInsights, each as the figures it prints; no
\* statements (only a message) when there is nothing to compute from.
calculateInsights(entries, metric, west) ==
    IF Len(entries) = 0 THEN [message |-> "No data available.", insights |-> Undefined]
    ELSE LET validData == ValidData(entries)
             n == Len(validData)
         IN  IF n = 0
             THEN [message |-> "No valid data available.", insights |-> Undefined]
             ELSE IF metric = "energy" \/ metric = "mood"
             THEN LET highestValues == [i \in 1..n |-> HighestOrFour(validData[i][metric])]
                      lowestValues == [i \in 1..n |-> LowestOrFour(validData[i][metric])]
                  IN  [message |-> "",
                       insights |-> Some(
                           [avgHighest |-> toFixed(calculateAverage(highestValues), 1),
                            avgLowest |-> toFixed(calculateAverage(lowestValues), 1),
                            bestDay |-> findBestDayOfWeek(validData, metric, west),
                            trend |-> findTrend(highestValues),
                            volatility |->
                                toFixed(calculateVolatility(validData, metric), 1)])]
             ELSE LET vals == [i \in 1..n |-> ScaleOrFour(validData[i][metric])]
                      avg == calculateAverage(vals)
                      bestEntry == ReduceMin(Tail(validData), metric, validData[1])
                      worstEntry == ReduceMax(Tail(validData), metric, validData[1])
                  IN  [message |-> "",
                       insights |-> Some(
                           [avg |-> toFixed(avg, 1),
                            lowestOn |-> <<bestEntry.date, bestEntry[metric]>>,
                            highestOn |-> <<worstEntry.date, worstEntry[metric]>>,
                            trend |-> trendLabel(findTrend(vals)),
                            pctBelow |-> toFixed(Frac(BelowAvg(vals, avg) * 100, n), 0)])]

\* generateSummary(data)
generateSummary(entries) ==
    LET validData == ValidData(entries)
        n == Len(validData)
        energyHighest == [i \in 1..n |-> HighestOrFour(validData[i].energy)]
        moodHighest == [i \in 1..n |-> HighestOrFour(validData[i].mood)]
        anxiety == [i \in 1..n |-> ScaleOrFour(validData[i].anxiety)]
        irritability == [i \in 1..n |-> ScaleOrFour(validData[i].irritability)]
    IN  IF n = 0
        THEN [totalDays |-> 0, trackedDays |-> 0, missingDays |-> 0,
              averages |-> Undefined, trends |-> Undefined]
        ELSE [totalDays |-> Len(entries),
              trackedDays |-> n,
              missingDays |-> Len(entries) - n,
              averages |-> Some(
                  [energy |-> toFixed(calculateAverage(energyHighest), 1),
                   mood |-> toFixed(calculateAverage(moodHighest), 1),
                   anxiety |-> toFixed(calculateAverage(anxiety), 1),
                   irritability |-> toFixed(calculateAverage(irritability), 1)]),
              trends |-> Some(
                  [energy |-> findTrend(energyHighest),
                   mood |-> findTrend(moodHighest),
                   anxiety |-> findTrend(anxiety),
                   irritability |-> findTrend(irritability)])]

\* Math.max.apply(null, values) for a non-empty array
RECURSIVE MaxOf(_)
MaxOf(vals) ==
    IF Len(vals) = 1 THEN vals[1]
    ELSE LET rest == MaxOf(Tail(vals)) IN IF vals[1] > rest THEN vals[1] ELSE rest

\* calculateCaffeineInsights(data)
calculateCaffeineInsights(entries) ==
    LET validData == ValidData(entries)
        n == Len(validData)
        caffeineValues == [i \in 1..n |-> CaffeineOf(validData[i])]
        daysWithCaffeine == Cardinality({i \in 1..n : caffeineValues[i] > 0})
    IN  IF Len(entries) = 0 \/ n = 0 THEN Undefined
        ELSE Some([avgCaffeine |-> toFixed(calculateAverage(caffeineValues), 0),
                   maxCaffeine |-> MaxOf(caffeineValues),
                   pctDaysWithCaffeine |-> toFixed(Frac(daysWithCaffeine * 100, n), 0),
                   trend |-> findTrend(caffeineValues)])

\* the predicate of the filter of calculateSleepInsights
HasSleepArray(e) == IsValid(e) /\ IsDefined(e.sleep)

\* the analyses the forEach of calculateSleepInsights counts
SleepAnalyses(entries) ==
    SelectSeq([k \in 1..Len(entries) |-> analyzeSleepData(entries[k].sleep)],
              LAMBDA an : FracLess(Frac(0, 1), an.duration))

\* hours * 60 + minutes of a bedtime, a day later for the hours before 6
BedtimeMinutes(t) ==
    IF ToNumber(SplitColon(t)[1]) < 6 THEN tMin(t) + 24 * 60 ELSE tMin(t)

\* Math.floor(avg / 60) for a fraction avg >= 0
FloorHours(avg) == avg.num \div (60 * avg.den)

\* Math.round(avg % 60) for a fraction avg >= 0
RoundMinutes(avg) == RoundDiv(avg.num % (60 * avg.den), avg.den)

\* calculateSleepInsights(data): the figures of its statements
calculateSleepInsights(entries) ==
    LET found == SleepAnalyses(SelectSeq(entries, HasSleepArray))
        n == Len(found)
        durations == SumFracs([i \in 1..n |-> found[i].duration])
        avgBedtimeMinutes ==
            calculateAverage([i \in 1..n |-> BedtimeMinutes(Get(found[i].bedtime))])
        avgWakeMinutes == calculateAverage([i \in 1..n |-> tMin(Get(found[i].wakeTime))])
        napDays == {i \in 1..n : found[i].hasNaps}
        totalNaps == SumSeq([i \in 1..n |->
                         IF i \in napDays THEN Get(found[i].napCount) ELSE 0])
        totalNapDuration == SumFracs([i \in 1..n |->
                         IF i \in napDays THEN Get(found[i].totalNapDuration)
                         ELSE Frac(0, 1)])
    IN  IF n = 0 THEN Undefined
        ELSE Some([avgDuration |-> toFixed(Frac(durations.num, durations.den * n), 1),
                   bedtime |-> <<FloorHours(avgBedtimeMinutes) % 24,
                                 RoundMinutes(avgBedtimeMinutes)>>,
                   wakeTime |-> <<FloorHours(avgWakeMinutes), RoundMinutes(avgWakeMinutes)>>,
                   totalNaps |-> totalNaps,
                   daysWithNaps |-> Cardinality(napDays),
                   avgNapDuration |->
                       IF totalNaps > 0
                       THEN Some(toFixed(Frac(totalNapDuration.num,
                                              totalNapDuration.den * totalNaps), 1))
                       ELSE Undefined])

\* analyzePatterns(data): the statements of the four comparisons, in order
analyzePatterns(entries) ==
    LET validData == ValidData(entries)
    IN  IF Len(validData) = 0 THEN <<>>
        ELSE analyzeCaffeineImpact(validData) \o analyzeSleepImpact(validData)
                 \o analyzeActivityImpact(validData) \o analyzePeopleImpact(validData)

-----------------------------------------------------------------------------
(* Scenario: the statistics of a gap-filled period (SpecInsights)           *)

\* the placeholder of the gap filling, with the fields it lacks absent
PlaceholderEntry(dateStr) ==
    LET b == BaselineEntry(dateStr)
    IN  [PatternEntry(dateStr, [PlainBody EXCEPT !.energy = b.energy,
                                                 !.mood = b.mood,
                                                 !.anxiety = b.anxiety,
                                                 !.irritability = b.irritability])
            EXCEPT !.isMissing = b.isMissing]

\* a day with caffeine, a run with sam, and sleep from 01:00 to 08:00
BusyDay ==
    [CafHigh EXCEPT !.activities = Some(<<"run">>),
                    !.people = Some(<<"sam">>),
                    !.sleep = Some(SlotsAsleep(2..15))]

\* a low day without caffeine: sleep from 00:30 to 07:00 and a nap at 14:00
QuietDay ==
    [PlainBody EXCEPT !.energy = Some([highest |-> 3, lowest |-> 2]),
                      !.mood = Some([highest |-> 2, lowest |-> 1]),
                      !.anxiety = Some(2),
                      !.irritability = Some(1),
                      !.sleep = Some(SlotsAsleep((1..13) \cup (28..29)))]

InsightBodies == {BusyDay, QuietDay, CafLow}

\* one more day without a stored entry, filled in by the normalizer
AppendPlaceholderDay ==
    /\ pc = "input"
    /\ Len(data) < MaxInsightDays
    /\ data' = Append(data, PlaceholderEntry(formatDate(AddDays(startDate, Len(data)))))
    /\ UNCHANGED <<pc, insightVars, navVars, fillVars, aggVars, sleepVars, trendVars>>

\* what the insight panels and the summary compute from the period
AllInsights(entries, west) ==
    [west |-> west,
     energy |-> calculateInsights(entries, "energy", west),
     mood |-> calculateInsights(entries, "mood", west),
     anxiety |-> calculateInsights(entries, "anxiety", west),
     irritability |-> calculateInsights(entries, "irritability", west),
     summary |-> generateSummary(entries),
     caffeine |-> calculateCaffeineInsights(entries),
     sleep |-> calculateSleepInsights(entries),
     patterns |-> analyzePatterns(entries)]

\* the panels are computed, in a time zone west of Greenwich or not
ComputeInsights ==
    /\ pc = "input"
    /\ \E west \in BOOLEAN : insights' = AllInsights(data, west)
    /\ pc' = "insights"
    /\ UNCHANGED <<data, values2, correlation, navVars, fillVars, aggVars, sleepVars,
                   trendVars>>

NextInsights ==
    \/ AppendPatternDay(InsightBodies, MaxInsightDays)
    \/ AppendPlaceholderDay
    \/ ComputeInsights

SpecInsights == InitPattern /\ [][NextInsights]_vars

-----------------------------------------------------------------------------
(* Claims about the placeholders in the statistics                          *)

\* data with the placeholders taken out
RECURSIVE WithoutPlaceholders(_)
WithoutPlaceholders(entries) ==
    IF entries = <<>> THEN <<>>
    ELSE IF Head(entries).isMissing = TRUE THEN WithoutPlaceholders(Tail(entries))
    ELSE <<Head(entries)>> \o WithoutPlaceholders(Tail(entries))

PlaceholderDays == {i \in 1..Len(data) : data[i].isMissing}

\* the averages, trends and statements of a result of AllInsights
FiguresOf(all) ==
    [energy |-> all.energy.insights,
     mood |-> all.mood.insights,
     anxiety |-> all.anxiety.insights,
     irritability |-> all.irritability.insights,
     averages |-> all.summary.averages,
     trends |-> all.summary.trends,
     caffeine |-> all.caffeine,
     sleep |-> all.sleep,
     patterns |-> all.patterns]

\* C16: the gap-filled placeholders never influence the insight computations:
\* calculateInsights, generateSummary, calculateCaffeineInsights,
\* calculateSleepInsights and analyzePatterns give, for a list of entries, the
\* averages, trends and statements they give for the list with every isMissing
\* entry removed.
C16_PlaceholdersIgnored ==
    pc = "insights" =>
        FiguresOf(insights) = FiguresOf(AllInsights(WithoutPlaceholders(data), insights.west))

\* placeholders among stored days, with statistics and patterns to report
C16_Witness ==
    /\ pc = "insights"
    /\ PlaceholderDays # {}
    /\ PlaceholderDays # 1..Len(data)
    /\ data[1].isMissing
    /\ IsDefined(insights.anxiety.insights)
    /\ IsDefined(insights.sleep)
    /\ insights.patterns # <<>>
    /\ insights.summary.missingDays > 0

-----------------------------------------------------------------------------
(* Scenario: stored entries with malformed scale values (SpecMalformed)     *)

\* a day with caffeine and a run, saved with anxiety 9
OverScaleDay ==
    [CafHigh EXCEPT !.anxiety = Some(9),
                    !.activities = Some(<<"run">>),
                    !.people = Some(<<"sam">>)]

\* a day without caffeine, saved with irritability -2 and a highest mood of -3
UnderScaleDay ==
    [PlainBody EXCEPT !.irritability = Some(-2),
                      !.mood = Some([highest |-> -3, lowest |-> 1])]

\* a day without caffeine, saved with irritability 2 and a highest mood of 3
\* and with the energy levels recorded as 0
ZeroEnergyDay ==
    [PlainBody EXCEPT !.irritability = Some(2),
                      !.mood = Some([highest |-> 3, lowest |-> 2]),
                      !.energy = Some([highest |-> 0, lowest |-> 0])]

MalformedBodies == {OverScaleDay, UnderScaleDay, ZeroEnergyDay, CafLow}

NextMalformed ==
    \/ AppendPatternDay(MalformedBodies, MaxMalformedDays)
    \/ ComputeInsights

SpecMalformed == InitPattern /\ [][NextMalformed]_vars

-----------------------------------------------------------------------------
(* Claims about malformed scale values                                      *)

\* a scale field of the form {highest, lowest} with the default in the place
\* of a part that is not a level from 1 to 7
DefaultedPair(field) ==
    IF field = <<>> THEN <<[highest |-> 4, lowest |-> 4]>>
    ELSE <<[highest |-> IF field[1].highest \in 1..7 THEN field[1].highest ELSE 4,
            lowest |-> IF field[1].lowest \in 1..7 THEN field[1].lowest ELSE 4]>>

\* a scale field that is a number, likewise
DefaultedLevel(field) ==
    IF field # <<>> /\ field[1] \in 1..7 THEN field ELSE <<4>>

\* data with the default written where a level is absent or off the scale
DataWithDefaults ==
    [i \in 1..Len(data) |->
        [data[i] EXCEPT !.energy = DefaultedPair(@),
                        !.mood = DefaultedPair(@),
                        !.anxiety = DefaultedLevel(@),
                        !.irritability = DefaultedLevel(@)]]

\* the days of data with a level off the scale (0 counts as absent)
OffScaleDays ==
    {i \in 1..Len(data) :
        \/ \E m \in {"energy", "mood"} :
               data[i][m] # <<>> /\ ( \/ data[i][m][1].highest \notin 0..7
                                      \/ data[i][m][1].lowest \notin 0..7 )
        \/ \E m \in {"anxiety", "irritability"} :
               data[i][m] # <<>> /\ data[i][m][1] \notin 0..7}

\* the averages, trends and comparisons of a result of AllInsights
LevelFiguresOf(all) ==
    [energy |-> all.energy.insights,
     mood |-> all.mood.insights,
     anxiety |-> IF all.anxiety.insights = <<>> THEN <<>>
                 ELSE <<all.anxiety.insights[1].avg, all.anxiety.insights[1].trend,
                        all.anxiety.insights[1].pctBelow>>,
     irritability |-> IF all.irritability.insights = <<>> THEN <<>>
                      ELSE <<all.irritability.insights[1].avg,
                             all.irritability.insights[1].trend,
                             all.irritability.insights[1].pctBelow>>,
     averages |-> all.summary.averages,
     trends |-> all.summary.trends,
     patterns |-> all.patterns]

\* C17: a 1-7 scale field of a valid entry that is absent or outside [1,7] is
\* replaced by the default 4 in the insight and pattern computations: the
\* averages, trends and comparisons are those of the entries with 4 written in
\* the place of every such value.
C17_DefaultInPlace ==
    pc = "insights" =>
        LevelFiguresOf(insights) = LevelFiguresOf(AllInsights(DataWithDefaults, insights.west))

\* the part of C17 the code keeps: with no level off the scale, absent and
\* zero levels count as 4
C17_AbsentCountsAsFour ==
    (pc = "insights" /\ OffScaleDays = {}) =>
        LevelFiguresOf(insights) = LevelFiguresOf(AllInsights(DataWithDefaults, insights.west))

\* C18: no insight statement contains NaN or Infinity: a comparison whose
\* reference group has mean 0 is skipped.
C18_NoInfinityOrNaN ==
    pc = "insights" =>
        \A k \in 1..Len(insights.patterns) :
            "pct" \in DOMAIN insights.patterns[k] =>
                insights.patterns[k].pct \notin {InfinityText, NaNText}

-----------------------------------------------------------------------------
(* analytics/analytics.js: the period navigator                             *)

\* new Date(year, month, date) at the time of day ms: month is 0-based and
\* any integer, date may be 0 (the last day of the month before)
NewDate(year, month, date, ms) ==
    LET y0 == year + (month \div 12)
        m == (month % 12) + 1
        y == IF m <= 2 THEN y0 - 1 ELSE y0
        era == y \div 400
        yoe == y - era * 400
        mp == (m + 9) % 12
        doy == (153 * mp + 2) \div 5 + date - 1
        doe == yoe * 365 + yoe \div 4 - yoe \div 100 + doy
    IN  [day |-> era * 146097 + doe - 719468, ms |-> ms]

\* d.setHours(0, 0, 0, 0) and d.setHours(23, 59, 59, 999)
setHours(d, ms) == [d EXCEPT !.ms = ms]

\* a variant of DaysFromMonday without the case of Sunday
DaysFromMondayPlain(dayOfWeek) == dayOfWeek - 1

\* (dayOfWeek === 0) ? 6 : dayOfWeek - 1
DaysFromMonday(dayOfWeek) == IF dayOfWeek = 0 THEN 6 ELSE dayOfWeek - 1

\* a % n of JavaScript for n > 0: the remainder has the sign of a
JsRem(a, n) == IF a >= 0 THEN a % n ELSE -((-a) % n)

\* a variant of FloorDiv that rounds toward zero
TruncDiv(a, n) == IF a >= 0 THEN a \div n ELSE -((-a) \div n)

\* Math.floor(a / n) for n > 0
FloorDiv(a, n) == a \div n

\* getOffsetDateRange(period, offset) with new Date() = today
getOffsetDateRange(period, offset, today) ==
    IF period = "week"
    THEN LET daysFromMonday == DaysFromMonday(getDay(today))
             monday == setHours(setDate(today, getDate(today) - daysFromMonday + offset * 7), 0)
             sunday == setHours(setDate(monday, getDate(monday) + 6), EndOfDayMs)
         IN  [startDate |-> monday, endDate |-> sunday]
    ELSE IF period = "month"
    THEN LET month0 == getMonth(today) + offset
             year == getFullYear(today) + FloorDiv(month0, 12)
             month == JsRem(JsRem(month0, 12) + 12, 12)
         IN  [startDate |-> NewDate(year, month, 1, 0),
              endDate |-> NewDate(year, month + 1, 0, EndOfDayMs)]
    ELSE IF period = "3months"
    THEN LET quarter0 == FloorDiv(getMonth(today), 3) + offset
             qYear == getFullYear(today) + FloorDiv(quarter0, 4)
             startMonth == JsRem(JsRem(quarter0, 4) + 4, 4) * 3
         IN  [startDate |-> NewDate(qYear, startMonth, 1, 0),
              endDate |-> NewDate(qYear, startMonth + 3, 0, EndOfDayMs)]
    ELSE LET targetYear == getFullYear(today) + offset
         IN  [startDate |-> NewDate(targetYear, 0, 1, 0),
              endDate |-> NewDate(targetYear, 11, 31, EndOfDayMs)]

\* the data-period values of the period buttons
Periods == {"week", "month", "3months", "year"}

\* the data-category-tab values of the tab buttons
CategoryTabs == {"energy", "mood", "other"}

\* the event delivered, with the offset and the loading flag it found
Event(name, arg) ==
    Some([name |-> name, arg |-> arg,
          before |-> [isLoading |-> isLoading, periodOffset |-> periodOffset]])

\* a variant of NewOffsetRejected that lets every step through
NeverRejected(newOffset) == FALSE

\* newOffset > 0: the step would lead into the future
NewOffsetRejected(newOffset) == newOffset > 0

\* renderCurrentView() with the cache, period and offset given: without
\* cached data a message is shown and nothing is computed
RenderCurrentView(cached, period, offset) ==
    IF IsDefined(cached)
    THEN /\ now' = clock
         /\ dateRange' = Some([period |-> period, offset |-> offset,
                               range |-> getOffsetDateRange(period, offset, clock)])
         /\ rendered' = cached
    ELSE /\ rendered' = Undefined
         /\ UNCHANGED <<now, dateRange>>

\* cacheExpiry: 5 * 60 * 1000
CacheExpiry == 300000

\* a variant of CacheValid that does not look at the age of the snapshot
CacheValidForever(cached, fetchedAt) == IsDefined(cached) /\ IsDefined(fetchedAt)

\* cachedData && lastFetch && (now - lastFetch) < cacheExpiry
CacheValid(cached, fetchedAt) ==
    /\ IsDefined(cached)
    /\ IsDefined(fetchedAt)
    /\ DateDiffMs(clock, Get(fetchedAt)) < CacheExpiry

\* the body of loadAnalyticsData() with the cache fields as they are when it
\* runs: a fetch is issued, answered later with the store as it is now, or
\* the view is rendered from the cache at once
LoadAnalyticsData(cached, fetchedAt) ==
    IF ~CacheValid(cached, fetchedAt)
    THEN /\ issued < MaxFetches
         /\ isLoading' = TRUE
         /\ requests' = requests \cup {[id |-> issued + 1, snapshot |-> store]}
         /\ issued' = issued + 1
         /\ rendered' = Undefined
         /\ UNCHANGED <<now, dateRange>>
    ELSE /\ RenderCurrentView(cached, viewPeriod, periodOffset)
         /\ isLoading' = FALSE
         /\ UNCHANGED <<requests, issued>>

-----------------------------------------------------------------------------
(* Scenario: the analytics page and its navigator (SpecNav)                 *)

\* the times new Date() gives: Monday 2024-01-01, Sunday 2024-02-25 and
\* Tuesday 2024-02-27 to Saturday 2024-03-02, at the first and the last
\* millisecond of the day
Clock ==
    {[day |-> BaseDay + d, ms |-> t] : d \in {-56, -1, 1, 2, 3, 4, 5}, t \in {0, EndOfDayMs}}

\* AnalyticsState as constructed, before the page is opened
InitNav ==
    /\ pc = "constructed"
    /\ startDate = MidnightOf(BaseDay)
    /\ endDate = startDate
    /\ data = <<>>
    /\ filled = <<>>
    /\ IdleInsight /\ IdleNav /\ IdleAgg /\ IdleSleep /\ IdleTrend

\* time passes between two events
TimePasses ==
    /\ \E today \in Clock : DateLeq(clock, today) /\ clock # today /\ clock' = today
    /\ UNCHANGED <<pc, isLoading, viewPeriod, periodOffset, currentCategoryTab, lastEvent,
                   now, dateRange, cachedData, lastFetch, requests, issued, store, rendered,
                   habitVars, data, insightVars, fillVars, aggVars, sleepVars, trendVars>>

\* initAnalytics(): the listeners are registered and the first load starts
initAnalytics ==
    /\ pc = "constructed"
    /\ pc' = "open"
    /\ LoadAnalyticsData(cachedData, lastFetch)
    /\ UNCHANGED <<viewPeriod, periodOffset, currentCategoryTab, lastEvent, clock,
                   cachedData, lastFetch, store,
                   habitVars, data, insightVars, fillVars, aggVars, sleepVars, trendVars>>

\* the fetch r resolves: the cache is written and the view is rendered
FetchResolved ==
    /\ \E r \in requests :
          /\ requests' = requests \ {r}
          /\ cachedData' = Some(r)
          /\ lastFetch' = Some(clock)
          /\ RenderCurrentView(Some(r), viewPeriod, periodOffset)
          /\ lastEvent' = Event("fetchResolved", r.id)
    /\ isLoading' = FALSE
    /\ UNCHANGED <<pc, viewPeriod, periodOffset, currentCategoryTab, clock, issued, store,
                   habitVars, data, insightVars, fillVars, aggVars, sleepVars, trendVars>>

\* the fetch r is rejected: an error message is shown
FetchRejected ==
    /\ \E r \in requests :
          /\ requests' = requests \ {r}
          /\ lastEvent' = Event("fetchRejected", r.id)
    /\ rendered' = Undefined
    /\ isLoading' = FALSE
    /\ UNCHANGED <<pc, viewPeriod, periodOffset, currentCategoryTab, now, dateRange, clock,
                   cachedData, lastFetch, issued, store,
                   habitVars, data, insightVars, fillVars, aggVars, sleepVars, trendVars>>

\* a click on the previous (-1) or next (+1) button
navigatePeriod(direction) ==
    /\ pc = "open"
    /\ direction = -1 => periodOffset > -MaxBack
    /\ lastEvent' = Event("navigatePeriod", direction)
    /\ IF isLoading \/ NewOffsetRejected(periodOffset + direction)
       THEN UNCHANGED <<periodOffset, now, dateRange, rendered>>
       ELSE /\ periodOffset' = periodOffset + direction
            /\ RenderCurrentView(cachedData, viewPeriod, periodOffset + direction)
    /\ UNCHANGED <<pc, isLoading, viewPeriod, currentCategoryTab, clock, cachedData,
                   lastFetch, requests, issued, store,
                   habitVars, data, insightVars, fillVars, aggVars, sleepVars, trendVars>>

\* a click on the period button with data-period = period
handlePeriodClick(period) ==
    /\ pc = "open"
    /\ lastEvent' = Event("handlePeriodClick", period)
    /\ IF isLoading
       THEN UNCHANGED <<viewPeriod, periodOffset, now, dateRange, rendered>>
       ELSE /\ viewPeriod' = period
            /\ periodOffset' = 0
            /\ RenderCurrentView(cachedData, period, 0)
    /\ UNCHANGED <<pc, isLoading, currentCategoryTab, clock, cachedData,
                   lastFetch, requests, issued, store,
                   habitVars, data, insightVars, fillVars, aggVars, sleepVars, trendVars>>

\* a click on the tab button with data-category-tab = categoryTab
handleCategoryTabClick(categoryTab) ==
    /\ pc = "open"
    /\ lastEvent' = Event("handleCategoryTabClick", categoryTab)
    /\ IF isLoading
       THEN UNCHANGED <<currentCategoryTab, now, dateRange, rendered>>
       ELSE /\ currentCategoryTab' = categoryTab
            /\ RenderCurrentView(cachedData, viewPeriod, periodOffset)
    /\ UNCHANGED <<pc, isLoading, viewPeriod, periodOffset, clock, cachedData,
                   lastFetch, requests, issued, store,
                   habitVars, data, insightVars, fillVars, aggVars, sleepVars, trendVars>>

\* refreshAnalyticsData(): the cache is dropped and a load starts
refreshAnalyticsData ==
    /\ pc = "open"
    /\ cachedData' = Undefined
    /\ lastFetch' = Undefined
    /\ LoadAnalyticsData(Undefined, Undefined)
    /\ lastEvent' = Event("refreshAnalyticsData", "")
    /\ UNCHANGED <<pc, viewPeriod, periodOffset, currentCategoryTab, clock, store,
                   habitVars, data, insightVars, fillVars, aggVars, sleepVars, trendVars>>

NextNav ==
    \/ initAnalytics
    \/ TimePasses
    \/ FetchResolved
    \/ FetchRejected
    \/ navigatePeriod(-1)
    \/ navigatePeriod(1)
    \/ \E period \in Periods : handlePeriodClick(period)
    \/ \E categoryTab \in CategoryTabs : handleCategoryTabClick(categoryTab)

SpecNav == InitNav /\ [][NextNav]_vars

-----------------------------------------------------------------------------
(* Claims about the period navigator                                        *)

\* the event delivered last was a forward step that would pass the present
ForwardPastPresent ==
    /\ lastEvent # <<>>
    /\ lastEvent[1].name = "navigatePeriod"
    /\ lastEvent[1].arg = 1
    /\ lastEvent[1].before.periodOffset + 1 > 0

PeriodClicked == lastEvent # <<>> /\ lastEvent[1].name = "handlePeriodClick"

\* C19: navigation never goes into the future: from periodOffset = 0, after
\* any sequence of navigatePeriod(-1), navigatePeriod(+1), handlePeriodClick and
\* handleCategoryTabClick events, periodOffset <= 0; a forward step that would
\* make the offset positive leaves the state as it found it; and after a period
\* click the offset is 0.
C19_NeverIntoFuture ==
    /\ [](periodOffset <= 0)
    /\ [][ForwardPastPresent' =>
              UNCHANGED <<pc, isLoading, viewPeriod, periodOffset, currentCategoryTab,
                          now, dateRange>>]_vars
    /\ [](PeriodClicked => periodOffset = 0)

\* a forward step was refused at the present, with the view rendered for an
\* earlier click on a period
C19_Witness ==
    /\ ForwardPastPresent
    /\ ~lastEvent[1].before.isLoading
    /\ viewPeriod = "month"
    /\ dateRange # <<>> /\ dateRange[1].period = "month"

\* the view came back to the present by a period click after steps back
C19_WitnessReset ==
    /\ PeriodClicked
    /\ lastEvent[1].before.periodOffset < 0
    /\ periodOffset = 0

\* with the refresh button in use, a period click during the refresh leaves
\* the offset where it was
C19_ClickHandledOrLoading ==
    PeriodClicked => (periodOffset = 0 \/ lastEvent[1].before.isLoading)

-----------------------------------------------------------------------------
(* Claims about getOffsetDateRange                                          *)

\* the view was rendered last for a week
WeekRendered == dateRange # <<>> /\ dateRange[1].period = "week"

\* day numbers of Mondays and of Sundays: day 4 was Monday 1970-01-05
IsMonday(dayNo) == dayNo % 7 = 4

IsSunday(dayNo) == dayNo % 7 = 3

\* C20: for the period 'week', every offset <= 0 and every current date,
\* getOffsetDateRange returns a range of exactly 7 calendar days that starts on
\* a Monday, ends on the following Sunday, and contains the date
\* now + offset * 7 days.
C20_WeekRange ==
    WeekRendered =>
        LET range == dateRange[1].range
            shifted == now.day + 7 * dateRange[1].offset
        IN  /\ dateRange[1].offset <= 0
            /\ IsMonday(range.startDate.day) /\ range.startDate.ms = 0
            /\ IsSunday(range.endDate.day) /\ range.endDate.ms = 86399999
            /\ range.endDate.day - range.startDate.day + 1 = 7
            /\ range.startDate.day <= shifted /\ shifted <= range.endDate.day

\* an earlier week rendered on a Sunday, the last day of its week
C20_Witness ==
    /\ WeekRendered
    /\ dateRange[1].offset < 0
    /\ IsSunday(now.day)
    /\ dateRange[1].range.endDate.day = now.day + 7 * dateRange[1].offset

-----------------------------------------------------------------------------
(* Scenario: getOffsetDateRange on its own (SpecRange)                      *)

\* the times new Date() gives: 2023-12-31, 2024-01-01, 2024-02-29,
\* 2024-03-31, 2024-07-01 and 2024-10-31, at the first and the last
\* millisecond of the day
RangeClock ==
    {[day |-> BaseDay + d, ms |-> t] : d \in {-57, -56, 3, 34, 126, 248}, t \in {0, EndOfDayMs}}

\* getOffsetDateRange(period, offset) is called at the time today
ComputeRange(period) ==
    /\ pc = "constructed"
    /\ \E offset \in (-MaxRangeBack)..0, today \in RangeClock :
          /\ now' = today
          /\ dateRange' = Some([period |-> period, offset |-> offset,
                                range |-> getOffsetDateRange(period, offset, today)])
    /\ pc' = "range"
    /\ UNCHANGED <<isLoading, viewPeriod, periodOffset, currentCategoryTab, lastEvent,
                   loadVars, habitVars, data, insightVars, fillVars, aggVars, sleepVars,
                   trendVars>>

NextRange == \E period \in Periods : ComputeRange(period)

SpecRange == InitNav /\ [][NextRange]_vars

-----------------------------------------------------------------------------
(* Claims about the month and quarter ranges                                *)

\* day number of the first day of month m (0-based) of year y
FirstDayOf(y, m) == DaysBeforeYear(y) + DaysBeforeMonth(y, m + 1)

\* day number of the last day of month m (0-based) of year y
LastDayOf(y, m) == FirstDayOf(y, m) + DaysInMonth(y, m + 1) - 1

\* the year and month of the day numbered dayNo, found by search
YearOf(dayNo) ==
    CHOOSE y \in 2015..2030 : DaysBeforeYear(y) <= dayNo /\ dayNo < DaysBeforeYear(y + 1)

MonthOf(dayNo) ==
    CHOOSE m \in 0..11 :
        FirstDayOf(YearOf(dayNo), m) <= dayNo /\ dayNo <= LastDayOf(YearOf(dayNo), m)

\* the range computed last was for the period given
RangeFor(period) == pc = "range" /\ dateRange # <<>> /\ dateRange[1].period = period

\* C21: for 'month' and '3months' and every offset <= 0, getOffsetDateRange
\* returns the first through the last day of the calendar month (quarter)
\* that lies |offset| months (quarters) before the current one: the target is
\* the floor quotient and the non-negative remainder of
\* 12 * year + month + offset by 12 (of 4 * year + quarter + offset by 4).
C21_MonthAndQuarter ==
    /\ RangeFor("month") =>
           LET target == 12 * YearOf(now.day) + MonthOf(now.day) + dateRange[1].offset
               y == target \div 12
               m == target % 12
           IN  dateRange[1].range =
                   [startDate |-> [day |-> FirstDayOf(y, m), ms |-> 0],
                    endDate |-> [day |-> LastDayOf(y, m), ms |-> 86399999]]
    /\ RangeFor("3months") =>
           LET target == 4 * YearOf(now.day) + (MonthOf(now.day) \div 3) + dateRange[1].offset
               y == target \div 4
               q == target % 4
           IN  dateRange[1].range =
                   [startDate |-> [day |-> FirstDayOf(y, 3 * q), ms |-> 0],
                    endDate |-> [day |-> LastDayOf(y, 3 * q + 2), ms |-> 86399999]]

\* a month and a quarter two year boundaries back, reached from January
C21_Witness ==
    /\ pc = "range" /\ dateRange # <<>>
    /\ MonthOf(now.day) = 0
    /\ \/ dateRange[1].period = "month" /\ dateRange[1].offset = -14
             /\ YearOf(dateRange[1].range.startDate.day) = YearOf(now.day) - 2
       \/ dateRange[1].period = "3months" /\ dateRange[1].offset = -5
             /\ YearOf(dateRange[1].range.startDate.day) = YearOf(now.day) - 2

-----------------------------------------------------------------------------
(* Scenario: loads, refreshes and clicks of a page session (SpecLoad)       *)

\* a step of the clock: half of the lifetime of the cache
TickMs == CacheExpiry \div 2

\* two and a half minutes pass
Tick ==
    /\ clock.ms < MaxTicks * TickMs
    /\ clock' = [clock EXCEPT !.ms = @ + TickMs]
    /\ UNCHANGED <<pc, isLoading, viewPeriod, periodOffset, currentCategoryTab, lastEvent,
                   now, dateRange, cachedData, lastFetch, requests, issued, store, rendered,
                   habitVars, data, insightVars, fillVars, aggVars, sleepVars, trendVars>>

\* an entry is saved: the collection in the store changes
StoreChanges ==
    /\ store < MaxVersions
    /\ store' = store + 1
    /\ UNCHANGED <<pc, isLoading, viewPeriod, periodOffset, currentCategoryTab, lastEvent,
                   now, dateRange, clock, cachedData, lastFetch, requests, issued, rendered,
                   habitVars, data, insightVars, fillVars, aggVars, sleepVars, trendVars>>

\* loadAnalyticsData() when the page is opened again
loadAnalyticsData ==
    /\ pc = "open"
    /\ LoadAnalyticsData(cachedData, lastFetch)
    /\ lastEvent' = Event("loadAnalyticsData", "")
    /\ UNCHANGED <<pc, viewPeriod, periodOffset, currentCategoryTab, clock, cachedData,
                   lastFetch, store,
                   habitVars, data, insightVars, fillVars, aggVars, sleepVars, trendVars>>

NextLoad ==
    \/ initAnalytics
    \/ loadAnalyticsData
    \/ refreshAnalyticsData
    \/ FetchResolved
    \/ FetchRejected
    \/ Tick
    \/ StoreChanges
    \/ navigatePeriod(-1)
    \/ navigatePeriod(1)
    \/ handlePeriodClick("month")
    \/ handleCategoryTabClick("mood")

SpecLoad == InitNav /\ [][NextLoad]_vars

-----------------------------------------------------------------------------
(* Claims about the cache and the fetches                                   *)

\* C22: last fetch wins: when two fetches overlap and their responses arrive
\* in any order, the cache ends up with the response of the request issued
\* last; the response of an older request never overwrites that of a newer one.
C22_LastFetchWins ==
    [][(cachedData # <<>> /\ cachedData' # <<>>) => cachedData'[1].id >= cachedData[1].id]_vars

\* C28: isLoading is true in every state in which a fetch issued by
\* loadAnalyticsData is in flight, so clicks are ignored for as long as a
\* fetch is outstanding.
C28_LoadingWhileInFlight == requests # {} => isLoading = TRUE

\* the other half of C28, which the code keeps: once every fetch has completed
\* isLoading is false
C28_IdleWhenNoneInFlight == (pc = "open" /\ requests = {}) => isLoading = FALSE


\* the age of the cached snapshot is five minutes or more, computed from the
\* two instants
SnapshotStale ==
    \/ cachedData = <<>>
    \/ lastFetch = <<>>
    \/ /\ cachedData # <<>>
       /\ lastFetch # <<>>
       /\ \/ clock.day - lastFetch[1].day >= 2
          \/ (clock.day - lastFetch[1].day) * 86400000 + clock.ms - lastFetch[1].ms >= 300000

\* the step is a call of loadAnalyticsData: the first one or a later one
LoadStep ==
    \/ pc = "constructed" /\ pc' = "open"
    \/ /\ pc = "open"
       /\ lastEvent' # <<>>
       /\ lastEvent'[1].name = "loadAnalyticsData"
       /\ clock' = clock
       /\ store' = store

\* the step is a call of refreshAnalyticsData
RefreshStep ==
    /\ pc = "open"
    /\ lastEvent' # <<>>
    /\ lastEvent'[1].name = "refreshAnalyticsData"
    /\ clock' = clock
    /\ store' = store

\* the step is a click on a period button, a tab or a navigation arrow
ClickStep ==
    /\ pc = "open"
    /\ lastEvent' # <<>>
    /\ lastEvent'[1].name \in {"navigatePeriod", "handlePeriodClick", "handleCategoryTabClick"}
    /\ clock' = clock
    /\ store' = store

\* C23: loadAnalyticsData issues a fetch exactly when there is no cached
\* snapshot or the snapshot is five minutes old or older; a click on a tab, a
\* period or a navigation arrow never issues a fetch and renders from the
\* snapshot in the cache, which only a completed fetch or a refresh replaces;
\* refreshAnalyticsData always drops the snapshot and issues a fetch.
C23_FetchOnlyWhenStale ==
    /\ [][LoadStep => ((issued' = issued + 1) <=> SnapshotStale)]_vars
    /\ [][LoadStep => (requests' # requests <=> SnapshotStale)]_vars
    /\ [][ClickStep => (issued' = issued /\ requests' = requests /\ cachedData' = cachedData)]_vars
    /\ [][(ClickStep /\ ~isLoading /\ ~ForwardPastPresent') => rendered' = cachedData]_vars
    /\ [][cachedData' # cachedData =>
            lastEvent'[1].name \in {"fetchResolved", "refreshAnalyticsData"}]_vars
    /\ [][RefreshStep => (cachedData' = <<>> /\ lastFetch' = <<>> /\ issued' = issued + 1)]_vars

\* C23 witness: the page was opened again when the snapshot was exactly five
\* minutes old and a second fetch went out, and a click has been served from a
\* snapshot since
C23_Witness ==
    /\ issued = 2
    /\ lastEvent # <<>>
    /\ lastEvent[1].name = "loadAnalyticsData"
    /\ lastFetch # <<>>
    /\ clock.day = lastFetch[1].day
    /\ clock.ms - lastFetch[1].ms = 2 * TickMs
    /\ requests # {}

\* C23 witness: the page was opened again within five minutes and no fetch
\* went out: the view is rendered from the snapshot of the first fetch
C23_WitnessCached ==
    /\ issued = 1
    /\ requests = {}
    /\ lastEvent # <<>>
    /\ lastEvent[1].name = "loadAnalyticsData"
    /\ lastFetch # <<>>
    /\ clock # lastFetch[1]
    /\ rendered = cachedData
    /\ rendered # <<>>

-----------------------------------------------------------------------------
(* analytics/habits-analytics.js                                            *)

HA_IDS == <<"cleaning", "exercise", "reading", "writing", "second-language">>

\* haToStr(date): the local date as YYYY-MM-DD
haToStr(date) ==
    ToString(getFullYear(date)) \o <<"-">>
        \o padStart(ToString(getMonth(date) + 1), 2, "0") \o <<"-">>
        \o padStart(ToString(getDate(date)), 2, "0")

\* x || 0 for a minute field that may be absent
OrZero(v) == IF v = <<>> \/ v = <<0>> THEN 0 ELSE v[1]

\* insertion of d by the comparator a.date < b.date ? -1 : 1
RECURSIVE HaInsert(_, _)
HaInsert(sorted, d) ==
    IF sorted = <<>> THEN <<d>>
    ELSE IF StrLess(d.date, Head(sorted).date) THEN <<d>> \o sorted
    ELSE <<Head(sorted)>> \o HaInsert(Tail(sorted), d)

\* _habitsCache.sort(...)
RECURSIVE HaSort(_)
HaSort(docs) == IF docs = <<>> THEN <<>> ELSE HaInsert(HaSort(Tail(docs)), Head(docs))

\* haEnsureData(): the cache it leaves and the list it returns, for the
\* outcome of the fetch it may start
haEnsureData(cache, docs, outcome) ==
    IF cache # <<>> THEN [cache |-> cache, result |-> cache[1]]
    ELSE IF outcome = "signedOut" THEN [cache |-> cache, result |-> <<>>]
    ELSE IF outcome = "resolved" THEN [cache |-> <<HaSort(docs)>>, result |-> HaSort(docs)]
    ELSE [cache |-> <<(<<>>)>>, result |-> <<>>]

RECURSIVE haFilter(_, _, _)
haFilter(entries, startD, endD) ==
    IF entries = <<>> THEN <<>>
    ELSE (IF /\ StrLeq(haToStr(startD), Head(entries).date)
             /\ StrLeq(Head(entries).date, haToStr(endD))
          THEN <<Head(entries)>> ELSE <<>>) \o haFilter(Tail(entries), startD, endD)

haDayMinutes(entry, id) ==
    IF id = "cleaning" THEN OrZero(entry.cleaning_time)
    ELSE IF id = "exercise" THEN OrZero(entry.exercise_time)
    ELSE IF id = "reading"
    THEN OrZero(entry.reading_fiction) + OrZero(entry.reading_nonfiction)
            + OrZero(entry.reading_fanfic) + OrZero(entry.reading_comic)
    ELSE IF id = "writing"
    THEN OrZero(entry.writing_nonfiction) + OrZero(entry.writing_poetry)
            + OrZero(entry.writing_prose) + OrZero(entry.writing_reflection)
    ELSE IF id = "second-language" THEN OrZero(entry.second_language_time)
    ELSE 0

\* a variant of haIsDone that looks at the minutes only
haIsDoneByMinutes(entry, id) == haDayMinutes(entry, id) > 0

\* entry[id] === true holds for the boolean true only
haIsDone(entry, id) == haDayMinutes(entry, id) > 0 \/ entry[id] = <<TRUE>>

RECURSIVE haTotalMin(_, _)
haTotalMin(entries, id) ==
    IF entries = <<>> THEN 0
    ELSE haTotalMin(SubSeq(entries, 1, Len(entries) - 1), id)
            + haDayMinutes(entries[Len(entries)], id)

RECURSIVE haDoneDays(_, _)
haDoneDays(entries, id) ==
    IF entries = <<>> THEN 0
    ELSE (IF haIsDone(Head(entries), id) THEN 1 ELSE 0) + haDoneDays(Tail(entries), id)

\* the message of a band of a message function; null is Undefined
Msg(fn, band) == Some([fn |-> fn, band |-> band])

\* the ladder shared by the message functions of one argument: below the
\* first limit, then up to each further limit, then the last return
RECURSIVE Ladder(_, _, _, _)
Ladder(fn, t, limits, band) ==
    IF limits = <<>> THEN Msg(fn, band)
    ELSE IF (band = 1 /\ t < Head(limits)) \/ (band > 1 /\ t <= Head(limits)) THEN Msg(fn, band)
    ELSE Ladder(fn, t, Tail(limits), band + 1)

RECURSIVE SumField(_, _)
SumField(entries, field) ==
    IF entries = <<>> THEN 0
    ELSE SumField(SubSeq(entries, 1, Len(entries) - 1), field)
            + OrZero(entries[Len(entries)][field])

_msgW_Cleaning(t) == Ladder("_msgW_Cleaning", t, <<20, 60, 100>>, 1)

_msgW_Exercise(t) == Ladder("_msgW_Exercise", t, <<20, 60, 120>>, 1)

_msgW_Reading(t) == Ladder("_msgW_Reading", t, <<20, 80, 210, 420, 840, 1260>>, 1)

_msgW_Writing(t, entries) ==
    IF SumField(entries, "writing_prose") + SumField(entries, "writing_poetry") > 210
    THEN Msg("_msgW_Writing", 1)
    ELSE IF t < 120 THEN Msg("_msgW_Writing", 2)
    ELSE Undefined

\* the ladder of the second-language functions: the first band also takes
\* the number of completed days
SecondLangLadder(fn, t, done, minDone, limits) ==
    IF t < Head(limits) \/ done < minDone THEN Msg(fn, 1)
    ELSE Ladder(fn, t, Tail(limits), 2)

_msgW_SecondLang(t, done) == SecondLangLadder("_msgW_SecondLang", t, done, 2, <<30, 60, 120>>)

_msgM_Cleaning(t) == Ladder("_msgM_Cleaning", t, <<80, 240, 400>>, 1)

_msgM_Exercise(t) == Ladder("_msgM_Exercise", t, <<80, 240, 480>>, 1)

_msgM_Reading(t) == Ladder("_msgM_Reading", t, <<80, 320, 840, 1680, 3360, 5040>>, 1)

\* the writing functions of the longer periods: too little, creative, default
WritingLadder(fn, t, entries, least, creative) ==
    IF t < least THEN Msg(fn, 1)
    ELSE IF SumField(entries, "writing_prose") + SumField(entries, "writing_poetry") > creative
    THEN Msg(fn, 2)
    ELSE Msg(fn, 3)

_msgM_Writing(t, entries) == WritingLadder("_msgM_Writing", t, entries, 480, 840)

_msgM_SecondLang(t, done) == SecondLangLadder("_msgM_SecondLang", t, done, 8, <<120, 240, 480>>)

_msgQ_Cleaning(t) == Ladder("_msgQ_Cleaning", t, <<240, 720, 1300>>, 1)

_msgQ_Exercise(t) == Ladder("_msgQ_Exercise", t, <<240, 780, 1560>>, 1)

_msgQ_Reading(t) == Ladder("_msgQ_Reading", t, <<240, 1000, 2520, 5040>>, 1)

_msgQ_Writing(t, entries) == WritingLadder("_msgQ_Writing", t, entries, 1440, 2520)

_msgQ_SecondLang(t, done) ==
    SecondLangLadder("_msgQ_SecondLang", t, done, 24, <<360, 720, 1440>>)

_msgY_Cleaning(t) == Ladder("_msgY_Cleaning", t, <<1040, 3120, 5200>>, 1)

_msgY_Exercise(t) == Ladder("_msgY_Exercise", t, <<1040, 3120, 5200>>, 1)

_msgY_Reading(t) == Ladder("_msgY_Reading", t, <<1040, 4000, 10000, 20000>>, 1)

_msgY_Writing(t, entries) == WritingLadder("_msgY_Writing", t, entries, 5200, 10000)

\* the yearly second-language function does not look at the completed days
_msgY_SecondLang(t, done) == Ladder("_msgY_SecondLang", t, <<1440, 5000>>, 1)

haGetMsg(id, period, total, done, entries) ==
    IF id = "cleaning" /\ period \in Periods
    THEN CASE period = "week" -> _msgW_Cleaning(total)
           [] period = "month" -> _msgM_Cleaning(total)
           [] period = "3months" -> _msgQ_Cleaning(total)
           [] period = "year" -> _msgY_Cleaning(total)
    ELSE IF id = "exercise" /\ period \in Periods
    THEN CASE period = "week" -> _msgW_Exercise(total)
           [] period = "month" -> _msgM_Exercise(total)
           [] period = "3months" -> _msgQ_Exercise(total)
           [] period = "year" -> _msgY_Exercise(total)
    ELSE IF id = "reading" /\ period \in Periods
    THEN CASE period = "week" -> _msgW_Reading(total)
           [] period = "month" -> _msgM_Reading(total)
           [] period = "3months" -> _msgQ_Reading(total)
           [] period = "year" -> _msgY_Reading(total)
    ELSE IF id = "writing" /\ period \in Periods
    THEN CASE period = "week" -> _msgW_Writing(total, entries)
           [] period = "month" -> _msgM_Writing(total, entries)
           [] period = "3months" -> _msgQ_Writing(total, entries)
           [] period = "year" -> _msgY_Writing(total, entries)
    ELSE IF id = "second-language" /\ period \in Periods
    THEN CASE period = "week" -> _msgW_SecondLang(total, done)
           [] period = "month" -> _msgM_SecondLang(total, done)
           [] period = "3months" -> _msgQ_SecondLang(total, done)
           [] period = "year" -> _msgY_SecondLang(total, done)
    ELSE Undefined


\* haInsights: the figures and the message of one habit's section
haInsights(id, entries, prevEntries, period) ==
    [total |-> haTotalMin(entries, id),
     prevTotal |-> haTotalMin(prevEntries, id),
     done |-> haDoneDays(entries, id),
     prevDone |-> haDoneDays(prevEntries, id),
     msg |-> haGetMsg(id, period, haTotalMin(entries, id), haDoneDays(entries, id), entries)]

-----------------------------------------------------------------------------
(* Scenario: the habits tab over a stored habit collection (SpecHabits)     *)

\* a habit document with no field set
NoHabits ==
    [field \in {"cleaning_time", "exercise_time", "reading_fiction", "reading_nonfiction",
                "reading_fanfic", "reading_comic", "writing_nonfiction", "writing_poetry",
                "writing_prose", "writing_reflection", "second_language_time",
                "cleaning", "exercise", "reading", "writing", "second-language"} |-> <<>>]

\* ticked without minutes; a flag stored as false; a timer left at zero
TickedDay ==
    [NoHabits EXCEPT !.cleaning = <<TRUE>>, !.reading = <<FALSE>>, !.exercise_time = <<0>>,
                     !["second-language"] = <<TRUE>>]

\* two hours of non-fiction writing, some reading in two genres
WriterDay ==
    [NoHabits EXCEPT !.writing_nonfiction = <<120>>, !.writing = <<TRUE>>,
                     !.reading_fiction = <<15>>, !.reading_comic = <<10>>]

\* prose and poetry above the weekly mark, cleaning, exercise and a lesson
FullDay ==
    [NoHabits EXCEPT !.writing_prose = <<150>>, !.writing_poetry = <<90>>,
                     !.cleaning_time = <<25>>, !.exercise_time = <<45>>,
                     !.second_language_time = <<30>>, !.exercise = <<FALSE>>]

HabitBodies == {NoHabits, TickedDay, WriterDay, FullDay}

\* the days of the documents, counted from the day of the clock: in the
\* current week, in the week before (the month, quarter and year before)
HabitDayOffsets == <<0, 2, -4, -32, -1, 1>>

HabitDoc(k, body) ==
    [field \in DOMAIN body \cup {"date"} |->
        IF field = "date"
        THEN haToStr([day |-> BaseDay - 56 + HabitDayOffsets[k], ms |-> 0])
        ELSE body[field]]

\* the collections of the store: document k is of day k
HabitStores ==
    UNION {{[k \in 1..n |-> HabitDoc(k, bodies[k])] : bodies \in [1..n -> HabitBodies]}
            : n \in 0..MaxHabitDays}

FetchOutcomes == {"resolved", "rejected", "signedOut"}

\* the page is open, some period is selected, and the store holds a collection
InitHabits ==
    /\ pc = "open"
    /\ startDate = MidnightOf(BaseDay)
    /\ endDate = startDate
    /\ data \in HabitStores
    /\ filled = <<>>
    /\ viewPeriod \in Periods
    /\ periodOffset \in -MaxHabitBack..0
    /\ isLoading = FALSE
    /\ currentCategoryTab = "energy"
    /\ lastEvent = Undefined
    /\ now = [day |-> 0, ms |-> 0]
    /\ dateRange = Undefined
    /\ clock = [day |-> BaseDay - 56, ms |-> 0]
    /\ cachedData = Undefined
    /\ lastFetch = Undefined
    /\ requests = {}
    /\ issued = 0
    /\ store = 0
    /\ rendered = Undefined
    /\ habitsCache = Undefined
    /\ habitsView = Undefined
    /\ IdleInsight /\ IdleAgg /\ IdleSleep /\ IdleTrend

\* renderHabitsTab(), with the outcome of the fetch that haEnsureData starts
\* when the cache is empty
renderHabitsTab(outcome) ==
    /\ pc = "open"
    /\ habitsCache # <<>> => outcome = "resolved"
    /\ LET range == getOffsetDateRange(viewPeriod, periodOffset, clock)
           prevRange == getOffsetDateRange(viewPeriod, periodOffset - 1, clock)
           allData == haEnsureData(habitsCache, data, outcome)
           entries == haFilter(allData.result, range.startDate, range.endDate)
           prevEntries == haFilter(allData.result, prevRange.startDate, prevRange.endDate)
       IN  /\ habitsCache' = allData.cache
           /\ habitsView' =
                Some([period |-> viewPeriod, dateRange |-> range, prevRange |-> prevRange,
                      entries |-> entries,
                      sections |-> [i \in 1..Len(HA_IDS) |->
                            haInsights(HA_IDS[i], entries, prevEntries, viewPeriod)]])
    /\ lastEvent' = Event("renderHabitsTab", IF habitsCache # <<>> THEN "cached" ELSE outcome)
    /\ UNCHANGED <<pc, isLoading, viewPeriod, periodOffset, currentCategoryTab,
                   now, dateRange, loadVars, data,
                   insightVars, fillVars, aggVars, sleepVars, trendVars>>

NextHabits == \E outcome \in FetchOutcomes : renderHabitsTab(outcome)

SpecHabits == InitHabits /\ [][NextHabits]_vars

-----------------------------------------------------------------------------
(* Claims about the habits tab                                              *)

\* the habits tab was drawn last after a fetch that failed
HabitFetchFailed ==
    /\ lastEvent # <<>>
    /\ lastEvent[1].name = "renderHabitsTab"
    /\ lastEvent[1].arg = "rejected"

\* C24: a failed fetch of the habit collection is surfaced as a failure and
\* nothing is aggregated or drawn from it: after the failure the tab shows no
\* habit sections, and the cache holds nothing but what a successful fetch
\* returned, so that a later call fetches again.
C24_FailureSurfaced ==
    /\ HabitFetchFailed => habitsView[1].sections = <<>>
    /\ habitsCache # <<>> => habitsCache[1] = HaSort(data)

\* the part of C24 about the entries fetch, which the code keeps: a rejected
\* fetch draws nothing from the cache and leaves cachedData and lastFetch as
\* they were
C24_EntriesFailureSurfaced ==
    [][(lastEvent' # <<>> /\ lastEvent'[1].name = "fetchRejected" /\ requests' # requests)
        => (rendered' = <<>> /\ cachedData' = cachedData /\ lastFetch' = lastFetch)]_vars


\* the minute fields of a habit, as the data schema names them
MinuteFields(id) ==
    CASE id = "cleaning" -> {"cleaning_time"}
      [] id = "exercise" -> {"exercise_time"}
      [] id = "reading" ->
            {"reading_fiction", "reading_nonfiction", "reading_fanfic", "reading_comic"}
      [] id = "writing" ->
            {"writing_nonfiction", "writing_poetry", "writing_prose", "writing_reflection"}
      [] id = "second-language" -> {"second_language_time"}

\* some minute field of the habit holds a positive number, or the flag of the
\* habit is true
DoneByDefinition(entry, id) ==
    \/ \E field \in MinuteFields(id) : entry[field] # <<>> /\ entry[field][1] > 0
    \/ entry[id] = <<TRUE>>

\* C25: for each of the five habits and every stored habit entry, haIsDone
\* holds exactly when the minutes of the day are positive or the flag of the
\* habit is true; in every drawn section the completed days are the number of
\* entries of the period for which that holds, between 0 and the number of
\* entries, and at least 1 when the total of minutes is positive.
C25_DoneDays ==
    /\ \A k \in 1..Len(data) : \A i \in 1..Len(HA_IDS) :
            haIsDone(data[k], HA_IDS[i]) <=> DoneByDefinition(data[k], HA_IDS[i])
    /\ habitsView # <<>> =>
        \A i \in 1..Len(HA_IDS) :
            LET section == habitsView[1].sections[i]
                entries == habitsView[1].entries
            IN  /\ section.done =
                        Cardinality({k \in 1..Len(entries) :
                                        DoneByDefinition(entries[k], HA_IDS[i])})
                /\ 0 <= section.done
                /\ section.done <= Len(entries)
                /\ section.total > 0 => section.done >= 1

\* C25 witness: a period with two entries was drawn in which one habit was
\* completed by its flag alone and another by its minutes on one of the days
C25_Witness ==
    /\ habitsView # <<>>
    /\ Len(habitsView[1].entries) = 2
    /\ \E i \in 1..Len(HA_IDS) :
            habitsView[1].sections[i].total = 0 /\ habitsView[1].sections[i].done >= 1
    /\ \E i \in 1..Len(HA_IDS) :
            habitsView[1].sections[i].total > 0 /\ habitsView[1].sections[i].done = 1

\* C26: for every habit and every period haGetMsg selects exactly one
\* message and never null: every drawn section carries a message.
C26_AlwaysOneMessage ==
    habitsView # <<>> => \A i \in 1..Len(HA_IDS) : habitsView[1].sections[i].msg # <<>>

\* the part of C26 that the code keeps: outside the weekly writing message
\* every section carries a message
C26_MessageUnlessWeeklyWriting ==
    habitsView # <<>> =>
        \A i \in 1..Len(HA_IDS) :
            (HA_IDS[i] # "writing" \/ habitsView[1].period # "week")
                => habitsView[1].sections[i].msg # <<>>

\* C27: the comparison period of the habit trend ends on the day before the
\* current period starts and has as many days as the current period, for
\* every period type and offset.
C27_PrecedingEqualLength ==
    habitsView # <<>> =>
        LET cur == habitsView[1].dateRange
            prev == habitsView[1].prevRange
        IN  /\ prev.endDate.day + 1 = cur.startDate.day
            /\ prev.endDate.day - prev.startDate.day = cur.endDate.day - cur.startDate.day

\* the part of C27 that the code keeps: the comparison period ends at the last
\* millisecond of the day before the current period starts at midnight
C27_ImmediatelyPrecedes ==
    habitsView # <<>> =>
        LET cur == habitsView[1].dateRange
            prev == habitsView[1].prevRange
        IN  /\ prev.endDate.day + 1 = cur.startDate.day
            /\ prev.endDate.ms = EndOfDayMs
            /\ cur.startDate.ms = 0
            /\ habitsView[1].period = "week" =>
                    prev.endDate.day - prev.startDate.day = cur.endDate.day - cur.startDate.day


-----------------------------------------------------------------------------
(* Claims about the two sleep durations                                     *)

\* the number of asleep slots of arr
AsleepCount(arr) == Cardinality({k \in 1..Len(arr) : arr[k]})

\* C29: for every 48-slot array the duration of analyzeSleepData is half the
\* number of asleep slots and equals calculateSleepDuration of the same
\* array, for the grid after any sequence of toggles and for the array saved
\* with the entry; a toggle changes one slot and both durations by half an
\* hour, and toggling the slot again restores the array.
C29_DurationsAgree ==
    /\ [](Len(sleepData) = SlotCount =>
            /\ FracEq(analyzeSleepData(Some(sleepData)).duration,
                      Frac(AsleepCount(sleepData), 2))
            /\ FracEq(analyzeSleepData(Some(sleepData)).duration,
                      calculateSleepDuration(sleepData)))
    /\ []((pc = "analyzed" /\ HasGrid) =>
            FracEq(Get(analysis).duration, calculateSleepDuration(Get(entrySleep))))
    /\ [][(Len(sleepData) = SlotCount /\ sleepData' # sleepData) =>
            \E k \in 1..SlotCount :
                /\ sleepData' = [sleepData EXCEPT ![k] = ~sleepData[k]]
                /\ [sleepData' EXCEPT ![k] = ~sleepData'[k]] = sleepData
                /\ AsleepCount(sleepData') - AsleepCount(sleepData) \in {-1, 1}]_vars

\* C29 witness: a grid with two separate periods and an odd number of asleep
\* slots, reached by a toggle, was saved and analyzed
C29_Witness ==
    /\ pc = "analyzed"
    /\ HasGrid
    /\ Len(Get(analysis).periods) = 2
    /\ AsleepCount(Get(entrySleep)) % 2 = 1
    /\ Get(entrySleep) \notin SleepPresets


-----------------------------------------------------------------------------
(* Scenario: the averages of a series of nights (SpecSleepAvg)              *)

\* the nights of the series: 01:00-08:00, 00:30-08:00, 20:00-24:00,
\* 06:00-10:30 and 23:00-24:00
Nights ==
    {SlotsAsleep(2..15), SlotsAsleep(1..15), SlotsAsleep(40..47), SlotsAsleep(12..20),
     SlotsAsleep(46..47)}

\* String(hours).padStart(2, '0') + ':' + String(mins).padStart(2, '0')
ClockLabel(hm) ==
    padStart(ToString(hm[1]), 2, "0") \o <<":">> \o padStart(ToString(hm[2]), 2, "0")

\* count nights in a row with the same grid are stored: one night, or a long
\* run of equal nights
LogNights(count) ==
    /\ pc = "input"
    /\ Len(data) + count <= MaxNights
    /\ count = 1 => Len(data) % (MaxNights - 1) < MaxSingleNights
    /\ \E night \in Nights :
          data' = data \o [k \in 1..count |->
                      StoredEntry(formatDate(AddDays(startDate, Len(data) + k - 1)),
                                  ExampleBody, Some(night))]
    /\ UNCHANGED <<insightVars, navVars, pc, fillVars, aggVars, sleepVars, trendVars>>

\* the sleep panel is computed and the sleep chart is drawn with one bar for
\* the whole series
ComputeSleepAverages ==
    /\ pc = "input"
    /\ Len(data) > 0
    /\ insights' = calculateSleepInsights(data)
    /\ chunkSize' = Len(data)
    /\ sleepChart' = _aggregateSleepRaw(data, Len(data))
    /\ pc' = "averaged"
    /\ UNCHANGED <<data, values2, correlation, chart, navVars, fillVars, sleepVars, trendVars>>

NextSleepAvg ==
    \/ \E count \in {1, MaxNights - 1} : LogNights(count)
    \/ ComputeSleepAverages

SpecSleepAvg == InitSleepAgg /\ [][NextSleepAvg]_vars

-----------------------------------------------------------------------------
(* Claims about the average bedtime and wake time                           *)

\* t is HH:MM with a minute of 00..59 (the hour may be any two digits)
HasClockMinutes(t) ==
    /\ Len(t) = 5
    /\ t[3] = ":"
    /\ t[1] \in {Digits[k] : k \in 1..10}
    /\ t[2] \in {Digits[k] : k \in 1..10}
    /\ \E m \in 0..59 : <<t[4], t[5]>> = <<Digits[(m \div 10) + 1], Digits[(m % 10) + 1]>>

\* the averages are clock strings with minutes 00..59 and the average bedtime
\* is the bedtime of the bar of the sleep chart
AveragesWellFormed ==
    /\ HasClockMinutes(ClockLabel(Get(insights).bedtime))
    /\ HasClockMinutes(ClockLabel(Get(insights).wakeTime))
    /\ ClockLabel(Get(insights).bedtime) = sleepChart[1].bedtime

\* C30: for every series of nights with sleep, up to the 366 of a year, the
\* average bedtime and the average wake time of calculateSleepInsights are
\* HH:MM strings with minutes 00..59 (rounding never gives 60), and the
\* average bedtime is the clock time that _aggregateSleepRaw computes for the
\* same entries.
C30_AverageClockStrings == (pc = "averaged" /\ insights # <<>>) => AveragesWellFormed

\* the part of C30 that the code keeps: for fewer than 60 nights the averages
\* are well-formed and the two bedtimes agree
C30_AveragesBelowSixtyNights ==
    (pc = "averaged" /\ insights # <<>> /\ Len(data) < 60) => AveragesWellFormed

====
